---- MODULE Spec2Model ----
(***************************************************************************)
(* Ledger engine of the bookkeeping bot (src/app.py, src/bot.py).          *)
(*                                                                         *)
(* Money is kept as integers counting hundredths: a typed amount such as   *)
(* "+0.5" is 50, a stored USDT value of 52.28 is 5228 (the code stores     *)
(* Decimal(str(x)) of a float that trunc2/round2 produced, which is an     *)
(* exact 2-decimal value).  Fee rates are whole percentages.  The float    *)
(* arithmetic of the code is IEEE-754 binary64 and is modelled bit-exactly *)
(* in the normal range: a double is sign * mantissa * 2^exponent with a    *)
(* 53-bit mantissa, and every operation rounds to nearest, ties to even.   *)
(* TLC integers are 32 bits wide, so a mantissa is a sequence of 15-bit    *)
(* limbs, most significant limb first, without leading zeros (<<>> is 0).  *)
(***************************************************************************)
EXTENDS Integers, Sequences, FiniteSets, TLC

\* ------------------------------------------------------------------------
\* Natural numbers of arbitrary width, as limb sequences
\* ------------------------------------------------------------------------

LimbBits == 15

Base == 2 ^ LimbBits

RECURSIVE NatOf(_)
NatOf(n) ==
    IF n = 0 THEN <<>> ELSE Append(NatOf(n \div Base), n % Base)

\* only for values below 2^31
RECURSIVE IntOf(_)
IntOf(a) ==
    IF a = <<>> THEN 0
    ELSE Base * IntOf(SubSeq(a, 1, Len(a) - 1)) + a[Len(a)]

RECURSIVE Strip(_)
Strip(a) ==
    IF a # <<>> /\ a[1] = 0 THEN Strip(Tail(a)) ELSE a

Zeros(k) ==
    [i \in 1..k |-> 0]

Pad(a, n) ==
    IF Len(a) >= n THEN a ELSE Zeros(n - Len(a)) \o a

AnyNonZero(a) ==
    \E i \in 1..Len(a) : a[i] # 0

RECURSIVE BitLenSmall(_)
BitLenSmall(n) ==
    IF n = 0 THEN 0 ELSE 1 + BitLenSmall(n \div 2)

BitLen(a) ==
    IF a = <<>> THEN 0 ELSE LimbBits * (Len(a) - 1) + BitLenSmall(a[1])

IsOdd(a) ==
    a # <<>> /\ a[Len(a)] % 2 = 1

\* a < b, a = b or a > b as -1, 0, 1, for a and b of the same length
RECURSIVE CmpSame(_, _)
CmpSame(a, b) ==
    IF a = <<>> THEN 0
    ELSE IF a[1] # b[1] THEN (IF a[1] < b[1] THEN -1 ELSE 1)
    ELSE CmpSame(Tail(a), Tail(b))

\* for a and b without leading zeros
Cmp(a, b) ==
    IF Len(a) # Len(b) THEN (IF Len(a) < Len(b) THEN -1 ELSE 1)
    ELSE CmpSame(a, b)

\* a + b + c for a and b of the same length
RECURSIVE AddC(_, _, _)
AddC(a, b, c) ==
    IF a = <<>> THEN (IF c = 0 THEN <<>> ELSE <<c>>)
    ELSE LET n == Len(a)
             t == a[n] + b[n] + c
         IN  Append(AddC(SubSeq(a, 1, n - 1), SubSeq(b, 1, n - 1), t \div Base),
                    t % Base)

Add(a, b) ==
    LET n == IF Len(a) > Len(b) THEN Len(a) ELSE Len(b)
    IN  Strip(AddC(Pad(a, n), Pad(b, n), 0))

\* a - b - c for a and b of the same length, a >= b + c
RECURSIVE SubC(_, _, _)
SubC(a, b, c) ==
    IF a = <<>> THEN <<>>
    ELSE LET n == Len(a)
             t == a[n] - b[n] - c
         IN  Append(SubC(SubSeq(a, 1, n - 1), SubSeq(b, 1, n - 1),
                         IF t < 0 THEN 1 ELSE 0),
                    IF t < 0 THEN t + Base ELSE t)

\* a - b for a >= b
Sub(a, b) ==
    Strip(SubC(a, Pad(b, Len(a)), 0))

\* a * c + carry for one limb c
RECURSIVE MulSmallC(_, _, _)
MulSmallC(a, c, carry) ==
    IF a = <<>> THEN NatOf(carry)
    ELSE LET n == Len(a)
             t == a[n] * c + carry
         IN  Append(MulSmallC(SubSeq(a, 1, n - 1), c, t \div Base), t % Base)

MulSmall(a, c) ==
    Strip(MulSmallC(a, c, 0))

RECURSIVE Mul(_, _)
Mul(a, b) ==
    IF a = <<>> \/ b = <<>> THEN <<>>
    ELSE LET hi == Mul(a, SubSeq(b, 1, Len(b) - 1))
         IN  Add(IF hi = <<>> THEN <<>> ELSE Append(hi, 0),
                 MulSmall(a, b[Len(b)]))

\* quotient and remainder of a by a divisor c < 2 * Base
RECURSIVE DivSmallP(_, _)
DivSmallP(a, c) ==
    IF a = <<>> THEN [q |-> <<>>, r |-> 0]
    ELSE LET p == DivSmallP(SubSeq(a, 1, Len(a) - 1), c)
             t == p.r * Base + a[Len(a)]
         IN  [q |-> Append(p.q, t \div c), r |-> t % c]

DivSmall(a, c) ==
    LET p == DivSmallP(a, c)
    IN  [q |-> Strip(p.q), r |-> p.r]

\* quotient and remainder by c, where c < 2 * Base or c = 1000 * c2 with
\* c2 < 2 * Base (the model divides by fx, 100 and 10^6 only)
DivMod(a, c) ==
    IF c < 2 * Base THEN DivSmall(a, c)
    ELSE LET d1 == DivSmall(a, 1000)
             d2 == DivSmall(d1.q, c \div 1000)
         IN  [q |-> d2.q, r |-> d2.r * 1000 + d1.r]

ShiftL(a, k) ==
    IF a = <<>> THEN <<>>
    ELSE MulSmall(a, 2 ^ (k % LimbBits)) \o Zeros(k \div LimbBits)

\* floor(a / 2^k), and whether anything was cut off
ShiftR(a, k) ==
    LET w  == k \div LimbBits
        hi == IF w >= Len(a) THEN <<>> ELSE SubSeq(a, 1, Len(a) - w)
        lo == IF w >= Len(a) THEN a ELSE SubSeq(a, Len(a) - w + 1, Len(a))
        d  == DivSmall(hi, 2 ^ (k % LimbBits))
    IN  [q |-> d.q, cut |-> d.r # 0 \/ AnyNonZero(lo)]

\* a * 2^-k (plus a fraction below the last bit of a when sticky) rounded to
\* the nearest integer, ties to even; sticky is only used with k >= 1
RoundShift(a, k, sticky) ==
    IF k <= 0 THEN ShiftL(a, -k)
    ELSE LET s    == ShiftR(a, k - 1)
             h    == DivSmall(s.q, 2)
             rest == sticky \/ s.cut
         IN  IF h.r = 1 /\ (rest \/ IsOdd(h.q)) THEN Add(h.q, <<1>>) ELSE h.q

\* ------------------------------------------------------------------------
\* binary64 values and operations (Python float)
\* ------------------------------------------------------------------------

MantBits == 53

FZero == [neg |-> FALSE, m |-> <<>>, e |-> 0]

\* the double nearest to (n + fraction) * 2^e; n has more than MantBits
\* bits when sticky
ToDouble(neg, n, e, sticky) ==
    IF n = <<>> THEN FZero
    ELSE LET k == BitLen(n) - MantBits
             r == RoundShift(n, k, sticky)
         IN  IF BitLen(r) > MantBits
             THEN [neg |-> neg, m |-> ShiftR(r, 1).q, e |-> e + k + 1]
             ELSE [neg |-> neg, m |-> r, e |-> e + k]

\* float(n) for an integer n
FInt(n) ==
    IF n < 0 THEN ToDouble(TRUE, NatOf(-n), 0, FALSE)
    ELSE ToDouble(FALSE, NatOf(n), 0, FALSE)

FNeg(x) ==
    IF x.m = <<>> THEN x ELSE [x EXCEPT !.neg = ~x.neg]

FAdd(x, y) ==
    IF x.m = <<>> THEN y
    ELSE IF y.m = <<>> THEN x
    ELSE LET e0 == IF x.e < y.e THEN x.e ELSE y.e
             a  == ShiftL(x.m, x.e - e0)
             b  == ShiftL(y.m, y.e - e0)
             c  == Cmp(a, b)
         IN  IF x.neg = y.neg THEN ToDouble(x.neg, Add(a, b), e0, FALSE)
             ELSE IF c = 0 THEN FZero
             ELSE IF c > 0 THEN ToDouble(x.neg, Sub(a, b), e0, FALSE)
             ELSE ToDouble(y.neg, Sub(b, a), e0, FALSE)

FSub(x, y) ==
    FAdd(x, FNeg(y))

FMul(x, y) ==
    IF x.m = <<>> \/ y.m = <<>> THEN FZero
    ELSE ToDouble(x.neg # y.neg, Mul(x.m, y.m), x.e + y.e, FALSE)

\* the dividend is extended by DivExtra bits so that the quotient has more
\* than MantBits + 1 bits and the remainder only decides the sticky bit
DivExtra == 24

\* x / float(c) for an integer c > 0 (see DivMod for the range of c)
FDivInt(x, c) ==
    IF x.m = <<>> THEN FZero
    ELSE LET d == DivMod(ShiftL(x.m, DivExtra), c)
         IN  ToDouble(x.neg, d.q, x.e - DivExtra, d.r # 0)

\* math.floor(x) as an integer
FFloor(x) ==
    IF x.m = <<>> THEN 0
    ELSE IF x.e >= 0 THEN (IF x.neg THEN -1 ELSE 1) * IntOf(ShiftL(x.m, x.e))
    ELSE LET s == ShiftR(x.m, -x.e)
         IN  IF x.neg THEN (IF s.cut THEN -IntOf(s.q) - 1 ELSE -IntOf(s.q))
             ELSE IntOf(s.q)

Pow10(nd) ==
    IF nd = 2 THEN 100 ELSE 1000000

\* round(x, nd) of Python: the decimal with nd digits nearest to the exact
\* value of x, ties to even; returned as the integer count of 10^-nd units
PyRoundUnits(x, nd) ==
    IF x.m = <<>> THEN [neg |-> FALSE, n |-> <<>>]
    ELSE [neg |-> x.neg,
          n   |-> RoundShift(Mul(x.m, NatOf(Pow10(nd))), -x.e, FALSE)]

\* the double that round(x, nd) returns
PyRound(x, nd) ==
    LET u == PyRoundUnits(x, nd)
    IN  FDivInt(ToDouble(u.neg, u.n, 0, FALSE), Pow10(nd))

\* ------------------------------------------------------------------------
\* Numeric helpers of the code
\* ------------------------------------------------------------------------

\* float(Decimal) of a stored 2-decimal value given in cents
CentsF(c) ==
    FDivInt(FInt(c), 100)

\* trunc2(x): floor(round(x, 6) * 100.0) / 100.0, returned in cents (the
\* final division by 100.0 gives the double nearest to cents / 100)
trunc2(x) ==
    LET rounded == PyRound(x, 6)
    IN  FFloor(FMul(rounded, FInt(100)))

\* round2(x): round(x, 2), returned in cents
round2(x) ==
    LET u == PyRoundUnits(x, 2)
    IN  IF u.neg THEN -IntOf(u.n) ELSE IntOf(u.n)

\* a fee rate typed as a percentage: float(text) / 100.0
RateF(pct) ==
    FDivInt(FInt(pct), 100)

\* usdt = trunc2(amt_f * (1 - rate_f) / fx_f), amt_f = float(amt)
DepositUsdt(amt, pct, fx) ==
    trunc2(FDivInt(FMul(CentsF(amt), FSub(FInt(1), RateF(pct))), fx))

\* usdt = round2(amt_f * (1 + rate_f) / fx_f), amt_f = float(amt)
WithdrawalUsdt(amt, pct, fx) ==
    round2(FDivInt(FMul(CentsF(amt), FAdd(FInt(1), RateF(pct))), fx))

\* ------------------------------------------------------------------------
\* Bounds and input domains
\* ------------------------------------------------------------------------

\* transactions ever created (ids handed out by the database)
MaxTxn == 2

\* last day of the run (days are Beijing calendar days, numbered from 0)
MaxDay == 1

\* updates the event loop is handed in a run of RaceSpec
MaxTasks == 2

Tasks == 1..MaxTasks

\* last second of the clock of a run of WebSpec
MaxNow == 2

\* seconds a token stays valid after it was made (24 hours in the code)
Lifetime == 1

\* the chat whose links the requests of WebSpec carry
WebChat == 1

\* rows the ledger is given in a run of WebSpec
WebRows == 1

\* group chats
Chats == {1, 2}

\* Telegram users; OWNER_ID is the id configured in the environment
OWNER_ID == 1

Users == {1, 2}

\* amounts typed after "+" or "-" (hundredths): 3519
RawAmounts == {351900}

\* values typed after the word for "disburse" (hundredths): 0.29 and -0.29
SendValues == {29, -29}

\* amounts typed after "+" or "-" in EntrySpec (hundredths): 0, 0.5, 3519
EntryAmounts == {0, 50, 351900}

\* values typed after the word for "disburse" in EntrySpec: 0 and 0.29
EntrySendValues == {0, 29}

\* percentages typed in the rate setting commands
RateValues == {10}

\* rates typed in the fx setting commands
FxValues == {0, 153}

\* the text after a command word: a number, or something float() rejects
Numbers(S) ==
    {[ok |-> TRUE, v |-> x] : x \in S} \cup {[ok |-> FALSE, v |-> 0]}

Abs(x) ==
    IF x < 0 THEN -x ELSE x

\* ------------------------------------------------------------------------
\* State
\* ------------------------------------------------------------------------

VARIABLES
    variant,       \* which program runs: "app" (src/app.py) or "bot" (src/bot.py)
    transactions,  \* rows of the transactions table
    next_id,       \* next transaction id of the database
    group_config,  \* chat -> rates and fx of the chat
    admins,        \* user ids in the admin table
    next_msg,      \* chat -> id Telegram gives to the next bill of the chat
    today,         \* current day
    last,          \* the update handled last and what the handler answered
    conv,          \* input and result of one conversion (ConvSpec only)
    tasks,         \* the updates handed to the event loop
    boot,          \* how far the start of the program has got, and the
                   \* answer of the webhook to the last request
    private_chat_users,  \* user ids in the table of private chat users
    SESSION_SECRET,  \* the secret of the environment, "None" when not set
    session,       \* the session of the browser: its token and user_info
    now,           \* the clock, in seconds
    response       \* the web request handled last and what it was answered

vars ==
    <<variant, transactions, next_id, group_config, admins, next_msg, today,
      last, conv, tasks, boot, private_chat_users, SESSION_SECRET, session,
      now, response>>

\* the state of the web side
webvars ==
    <<SESSION_SECRET, session, now, response>>

\* a configuration row as the database creates it on first access
ZeroConfig ==
    [in_rate |-> 0, in_fx |-> 0, out_rate |-> 0, out_fx |-> 0]

\* no transaction
NoTxn ==
    [id |-> 0, chat_id |-> 0, transaction_type |-> "none", amount |-> 0,
     rate |-> 0, fx |-> 0, usdt |-> 0, day |-> 0, operator_id |-> 0,
     message_id |-> 0]

NoTotals ==
    [should |-> 0, sent |-> 0]

\* the statistics of a clear-data command that removed nothing
NoStats ==
    [in_count |-> 0, in_usdt |-> 0, out_count |-> 0, out_usdt |-> 0,
     send_count |-> 0, send_usdt |-> 0]

\* nothing handled yet
NoUpdate ==
    [cmd |-> "none", chat |-> 0, user |-> 0, arg |-> 0, reply |-> "none",
     summary |-> FALSE, txn_id |-> 0, msg |-> 0, deleted |-> NoTxn,
     before |-> NoTotals, stats |-> NoStats, chat_type |-> "none"]

ConvIdle ==
    [kind |-> "none", amt |-> 0, pct |-> 0, fx |-> 0, usdt |-> 0]

\* a slot of the event loop that holds no update
FreeTask ==
    [pc |-> "free", update_id |-> 0, cmd |-> "none", chat |-> 0, user |-> 0,
     text |-> [ok |-> TRUE, v |-> 0], reply |-> "none", txn_id |-> 0,
     msg |-> 0, stats |-> NoStats]

NoTasks ==
    [p \in Tasks |-> FreeTask]

\* the program before the thread of the bot is started: the globals
\* telegram_app and bot_loop are None
NotStarted ==
    [pc |-> "start", telegram_app |-> "None", bot_loop |-> "None",
     answer |-> "none"]

\* the program after the start: the loop runs and the application is
\* initialised
Started ==
    [pc |-> "ready", telegram_app |-> "initialized", bot_loop |-> "running",
     answer |-> "none"]

\* request.args.get("token") or session.get("token") when there is none
NoToken ==
    <<>>

\* SESSION_SECRET after the start: os.getenv gives the secret, and a missing
\* or empty one is replaced by None
Secrets ==
    {"None", "k"}

Init ==
    /\ variant \in {"app", "bot"}
    /\ transactions = {}
    /\ next_id = 1
    /\ group_config = [c \in Chats |-> ZeroConfig]
    /\ admins = {OWNER_ID}
    /\ next_msg = [c \in Chats |-> 1]
    /\ today = 0
    /\ last = NoUpdate
    /\ conv = ConvIdle
    /\ tasks = NoTasks
    /\ boot = Started
    /\ private_chat_users = {}
    /\ SESSION_SECRET = "k"
    /\ session = [token |-> NoToken,
                  user_info |-> [chat_id |-> 0, user_id |-> 0]]
    /\ now = 0
    /\ response = [status |-> "none", route |-> "none", ran |-> FALSE,
                   chat |-> 0, user |-> 0, query |-> NoToken,
                   cookie |-> NoToken, at |-> 0]

\* ------------------------------------------------------------------------
\* The database module (not part of the sources; after spec.md, section 4)
\* ------------------------------------------------------------------------

RECURSIVE SumUsdt(_)
SumUsdt(S) ==
    IF S = {} THEN 0
    ELSE LET t == CHOOSE x \in S : TRUE
         IN  t.usdt + SumUsdt(S \ {t})

\* db.is_admin(user_id)
is_admin(u) ==
    u \in admins

\* db.add_transaction(...): a new row without message id, created now
add_transaction(txns, c, type, amount, rate, fx, usdt, u) ==
    txns \cup {[id |-> next_id, chat_id |-> c, transaction_type |-> type,
                amount |-> amount, rate |-> rate, fx |-> fx, usdt |-> usdt,
                day |-> today, operator_id |-> u, message_id |-> 0]}

\* db.update_transaction_message_id(txn_id, message_id): sets the reference
\* of a row that has none (or the same one) and fails otherwise
update_transaction_message_id(txns, id, ref) ==
    {IF t.id = id /\ t.message_id \in {0, ref}
     THEN [t EXCEPT !.message_id = ref] ELSE t : t \in txns}

\* the rows db.delete_transaction_by_message_id(message_id) may find: the
\* search covers all chats and all days
RowsWithMessageId(txns, ref) ==
    {t \in txns : t.message_id = ref}

\* the rows of the chat's current period
PeriodRows(txns, c, day) ==
    {t \in txns : t.chat_id = c /\ t.day = day}

RowsOfType(S, type) ==
    {t \in S : t.transaction_type = type}

\* db.get_transactions_summary(chat_id): totals of the current period
get_transactions_summary(txns, c, day) ==
    LET rows == PeriodRows(txns, c, day)
    IN  [should_send |-> SumUsdt(RowsOfType(rows, "in")),
         send_usdt   |-> SumUsdt(RowsOfType(rows, "out"))
                           + SumUsdt(RowsOfType(rows, "send"))]

\* db.clear_today_transactions(chat_id): what stays in the table
clear_today_transactions(txns, c, day) ==
    txns \ PeriodRows(txns, c, day)

\* what db.clear_today_transactions(chat_id) returns: per type the number
\* of the rows it removes and the sum of their usdt
cleared_stats(txns, c, day) ==
    LET rows == PeriodRows(txns, c, day)
    IN  [t \in {"in", "out", "send"} |->
            [count |-> Cardinality(RowsOfType(rows, t)),
             usdt  |-> SumUsdt(RowsOfType(rows, t))]]

\* ------------------------------------------------------------------------
\* Rendering and the parts shared by the handlers
\* ------------------------------------------------------------------------

\* the admin test without the comparison with OWNER_ID
is_bot_admin_by_table(u) ==
    is_admin(u)

\* OWNER_ID is a bot admin whatever the admin table holds
is_bot_admin(u) ==
    u = OWNER_ID \/ is_admin(u)

\* the three totals of render_group_summary / render_full_summary
render_group_summary(txns, c, day) ==
    LET summary == get_transactions_summary(txns, c, day)
        should  == trunc2(CentsF(summary.should_send))
        sent    == trunc2(CentsF(summary.send_usdt))
        diff    == trunc2(FSub(CentsF(should), CentsF(sent)))
    IN  [should |-> should, sent |-> sent, diff |-> diff]

\* the stored totals of a chat
Totals(txns, c, day) ==
    LET summary == get_transactions_summary(txns, c, day)
    IN  [should |-> summary.should_send, sent |-> summary.send_usdt]

\* what is remembered of the update handled last: the command and its
\* argument, the kind of answer, whether a summary of the chat was rendered
\* (from the table as the handler leaves it), the transaction created and
\* the id of the bill that presents it, the row an undo got back from the
\* database, and the stored totals before a transaction was recorded
Update(cmd, c, u, arg, reply, summary, txn_id, msg, deleted, before) ==
    [cmd |-> cmd, chat |-> c, user |-> u, arg |-> arg, reply |-> reply,
     summary |-> summary, txn_id |-> txn_id, msg |-> msg,
     deleted |-> deleted, before |-> before, stats |-> NoStats,
     chat_type |-> "group"]

\* the handler returns without touching the database; it may have answered
\* with a plain text
Answered(cmd, c, u, arg, reply) ==
    /\ last' = Update(cmd, c, u, arg, reply, FALSE, 0, 0, NoTxn, NoTotals)
    /\ UNCHANGED <<variant, transactions, next_id, group_config, admins,
                   next_msg, today, conv, tasks, boot, private_chat_users, webvars>>

\* the handler leaves the table txns and ends with send_summary_with_button
Summarised(cmd, c, u, arg, reply, txns, deleted) ==
    /\ transactions' = txns
    /\ last' = Update(cmd, c, u, arg, reply, TRUE, 0, 0, deleted, NoTotals)
    /\ UNCHANGED <<variant, next_id, group_config, admins, next_msg, today,
                   conv, tasks, boot, private_chat_users, webvars>>

\* a record branch that runs into a second db.add_transaction with the
\* same values
RecordedTwice(cmd, c, u, arg, type, amount, rate, fx, usdt) ==
    LET added == add_transaction(transactions, c, type, amount, rate, fx,
                                 usdt, u)
        again == [id |-> next_id + 1, chat_id |-> c,
                  transaction_type |-> type, amount |-> amount, rate |-> rate,
                  fx |-> fx, usdt |-> usdt, day |-> today, operator_id |-> u,
                  message_id |-> 0]
        msg   == next_msg[c]
    IN  /\ next_id <= MaxTxn
        /\ transactions' =
               update_transaction_message_id(added, next_id, msg)
                   \cup {again}
        /\ next_id' = next_id + 2
        /\ next_msg' = [next_msg EXCEPT ![c] = msg + 1]
        /\ last' = Update(cmd, c, u, arg, "summary", TRUE, next_id, msg,
                          NoTxn, Totals(transactions, c, today))
        /\ UNCHANGED <<variant, group_config, admins, today, conv, tasks,
                       boot, private_chat_users, webvars>>

\* add_transaction, send_summary_with_button, update_transaction_message_id
Recorded(cmd, c, u, arg, type, amount, rate, fx, usdt) ==
    LET added == add_transaction(transactions, c, type, amount, rate, fx,
                                 usdt, u)
        msg   == next_msg[c]
    IN  /\ next_id <= MaxTxn
        /\ transactions' = update_transaction_message_id(added, next_id, msg)
        /\ next_id' = next_id + 1
        /\ next_msg' = [next_msg EXCEPT ![c] = msg + 1]
        /\ last' = Update(cmd, c, u, arg, "summary", TRUE, next_id, msg,
                          NoTxn, Totals(transactions, c, today))
        /\ UNCHANGED <<variant, group_config, admins, today, conv, tasks,
                       boot, private_chat_users, webvars>>

\* ------------------------------------------------------------------------
\* handle_text, group chats: one action per kind of text
\* ------------------------------------------------------------------------

\* the test for a missing fx left out
FxMissingNever(fx) ==
    FALSE

\* "if fx == 0:" of the deposit and withdrawal branches
FxMissing(fx) ==
    fx = 0

\* text.startswith("+") and not text.startswith("+0"); bot.py has only the
\* first test.  A typed amount starts with the digit 0 when it is below 1.
RecordBranch(amt) ==
    variant = "bot" \/ amt >= 100

\* "+0" is in the list of view texts of app.py
ViewText(amt) ==
    variant = "app" /\ amt = 0

\* "+<amt>"
Deposit(c, u, amt) ==
    LET config == group_config[c]
    IN  IF RecordBranch(amt)
        THEN IF ~is_bot_admin(u) THEN Answered("deposit", c, u, amt, "ignored")
             ELSE IF FxMissing(config.in_fx)
             THEN Answered("deposit", c, u, amt, "config_error")
             ELSE IF config.in_fx = 0
             THEN Answered("deposit", c, u, amt, "ZeroDivisionError")
             ELSE Recorded("deposit", c, u, amt, "in", amt, config.in_rate,
                           config.in_fx,
                           DepositUsdt(amt, config.in_rate, config.in_fx))
        ELSE IF ViewText(amt)
        THEN Summarised("view", c, u, amt, "summary", transactions, NoTxn)
        ELSE Answered("deposit", c, u, amt, "ignored")

\* the withdrawal branch with the test made on the fx of the deposits
WithdrawalByDepositFx(c, u, amt) ==
    LET config == group_config[c]
    IN  IF RecordBranch(amt)
        THEN IF ~is_bot_admin(u)
             THEN Answered("withdrawal", c, u, amt, "ignored")
             ELSE IF FxMissing(config.in_fx)
             THEN Answered("withdrawal", c, u, amt, "config_error")
             ELSE IF config.out_fx = 0
             THEN Answered("withdrawal", c, u, amt, "ZeroDivisionError")
             ELSE Recorded("withdrawal", c, u, amt, "out", amt,
                           config.out_rate, config.out_fx,
                           WithdrawalUsdt(amt, config.out_rate, config.out_fx))
        ELSE Answered("withdrawal", c, u, amt, "ignored")

\* "-<amt>"; "-0" is not a view text
Withdrawal(c, u, amt) ==
    LET config == group_config[c]
    IN  IF RecordBranch(amt)
        THEN IF ~is_bot_admin(u)
             THEN Answered("withdrawal", c, u, amt, "ignored")
             ELSE IF FxMissing(config.out_fx)
             THEN Answered("withdrawal", c, u, amt, "config_error")
             ELSE IF config.out_fx = 0
             THEN Answered("withdrawal", c, u, amt, "ZeroDivisionError")
             ELSE Recorded("withdrawal", c, u, amt, "out", amt,
                           config.out_rate, config.out_fx,
                           WithdrawalUsdt(amt, config.out_rate, config.out_fx))
        ELSE Answered("withdrawal", c, u, amt, "ignored")

\* the disbursement branch without "if not is_bot_admin(user.id): return"
SendByAnyone(c, u, text) ==
    IF ~text.ok THEN Answered("send", c, u, text.v, "format_error")
    ELSE Recorded("send", c, u, text.v, "send", Abs(text.v), 0, 0,
                  Abs(text.v))

\* the disbursement word followed by a text: amount and usdt are both
\* abs(usdt_val), rate and fx are 0
Send(c, u, text) ==
    IF ~is_bot_admin(u) THEN Answered("send", c, u, text.v, "ignored")
    ELSE IF ~text.ok THEN Answered("send", c, u, text.v, "format_error")
    ELSE Recorded("send", c, u, text.v, "send", Abs(text.v), 0, 0,
                  Abs(text.v))

\* db.delete_transaction_by_message_id(message_id), after spec.md 4.2: the
\* possible results.  At most one row that carries the message id is
\* deleted and returned; the caller passes no chat, so when rows of several
\* chats carry the id any one of them may be the one found.
delete_transaction_by_message_id(txns, ref) ==
    IF RowsWithMessageId(txns, ref) = {}
    THEN {[deleted |-> NoTxn, txns |-> txns]}
    ELSE {[deleted |-> t, txns |-> txns \ {t}] :
            t \in RowsWithMessageId(txns, ref)}

\* the id of the message after the one replied to
target_msg_id_next(reply_to) ==
    reply_to + 1

\* target_msg_id = update.message.reply_to_message.message_id
target_msg_id(reply_to) ==
    reply_to

\* the undo word as a reply to the bill reply_to of the chat (0: not a
\* reply)
Undo(c, u, reply_to) ==
    /\ reply_to < next_msg[c]
    /\ IF ~is_bot_admin(u) THEN Answered("undo", c, u, reply_to, "ignored")
       ELSE IF reply_to = 0
       THEN Answered("undo", c, u, reply_to, "need_reply")
       ELSE \E r \in delete_transaction_by_message_id(
                         transactions, target_msg_id(reply_to)) :
               IF r.deleted # NoTxn
               THEN Summarised("undo", c, u, reply_to, "undone", r.txns,
                               r.deleted)
               ELSE Answered("undo", c, u, reply_to, "not_found")

\* the rollback without the test for the owner
api_rollback_unchecked(u, message_id) ==
    IF message_id = 0 THEN Answered("rollback", 0, u, message_id, "400")
    ELSE \E r \in delete_transaction_by_message_id(transactions, message_id) :
            /\ transactions' = r.txns
            /\ last' = Update("rollback", 0, u, message_id,
                              IF r.deleted # NoTxn THEN "200" ELSE "404",
                              FALSE, 0, 0, r.deleted, NoTotals)
            /\ UNCHANGED <<variant, next_id, group_config, admins, next_msg,
                           today, conv, tasks, boot, private_chat_users, webvars>>

\* POST /api/rollback by the user of the session token
api_rollback(u, message_id) ==
    IF u # OWNER_ID THEN Answered("rollback", 0, u, message_id, "403")
    ELSE IF message_id = 0 THEN Answered("rollback", 0, u, message_id, "400")
    ELSE \E r \in delete_transaction_by_message_id(transactions, message_id) :
            /\ transactions' = r.txns
            /\ last' = Update("rollback", 0, u, message_id,
                              IF r.deleted # NoTxn THEN "200" ELSE "404",
                              FALSE, 0, 0, r.deleted, NoTotals)
            /\ UNCHANGED <<variant, next_id, group_config, admins, next_msg,
                           today, conv, tasks, boot, private_chat_users, webvars>>

\* user.first_name, stored with a row as operator_name: Telegram display
\* names are not unique, and the users of the model carry the same one
first_name ==
    [u \in Users |-> "Li"]

\* statistics["by_operator"] of GET /api/transactions for the rows
\* db.get_today_transactions(chat_id) returns: the loop files every record
\* under r["operator"], which is the operator_name of its row (the sums are
\* kept in hundredths here)
by_operator(rows) ==
    [op \in {first_name[t.operator_id] : t \in rows} |->
        LET own == {t \in rows : first_name[t.operator_id] = op}
        IN  [deposit_count      |-> Cardinality(RowsOfType(own, "in")),
             deposit_usdt       |-> SumUsdt(RowsOfType(own, "in")),
             withdrawal_count   |-> Cardinality(RowsOfType(own, "out")),
             withdrawal_usdt    |-> SumUsdt(RowsOfType(own, "out")),
             disbursement_count |-> Cardinality(RowsOfType(own, "send")),
             disbursement_usdt  |-> SumUsdt(RowsOfType(own, "send"))]]

\* sum(r["usdt"] for r in records if r["type"] == ...): the floats of the
\* stored usdt values added up in the order of the records, oldest first
RECURSIVE FSumUsdt(_)
FSumUsdt(rows) ==
    IF rows = {} THEN FZero
    ELSE LET t == CHOOSE x \in rows : \A y \in rows : y.id <= x.id
         IN  FAdd(FSumUsdt(rows \ {t}), CentsF(t.usdt))

\* statistics["pending_disbursement"] of GET /api/transactions:
\* total_deposit_usdt - total_withdrawal_usdt - total_disbursement
pending_disbursement(rows) ==
    FSub(FSub(FSumUsdt(RowsOfType(rows, "in")),
              FSumUsdt(RowsOfType(rows, "out"))),
         FSumUsdt(RowsOfType(rows, "send")))

\* the defaults written by the reset command of app.py
DefaultsApp ==
    [in_rate |-> 20, in_fx |-> 153, out_rate |-> 0, out_fx |-> 142]

\* the defaults written by the reset command of bot.py
DefaultsBot ==
    [in_rate |-> 10, in_fx |-> 153, out_rate |-> 2, out_fx |-> 137]

\* the reset-defaults command; bot.py sends the summary afterwards
ResetDefaults(c, u) ==
    IF ~is_bot_admin(u) THEN Answered("defaults", c, u, 0, "ignored")
    ELSE IF variant = "app"
    THEN /\ group_config' = [group_config EXCEPT ![c] = DefaultsApp]
         /\ last' = Update("defaults", c, u, 0, "done", FALSE, 0, 0, NoTxn,
                           NoTotals)
         /\ UNCHANGED <<variant, transactions, next_id, admins, next_msg,
                        today, conv, tasks, boot, private_chat_users, webvars>>
    ELSE /\ group_config' = [group_config EXCEPT ![c] = DefaultsBot]
         /\ last' = Update("defaults", c, u, 0, "done", TRUE, 0, 0, NoTxn,
                           NoTotals)
         /\ UNCHANGED <<variant, transactions, next_id, admins, next_msg,
                        today, conv, tasks, boot, private_chat_users, webvars>>

\* the send statistics read from the entry of the withdrawals
ClearedStatsSendFromOut(stats) ==
    [in_count   |-> stats["in"].count,   in_usdt   |-> stats["in"].usdt,
     out_count  |-> stats["out"].count,  out_usdt  |-> stats["out"].usdt,
     send_count |-> stats["out"].count,  send_usdt |-> stats["out"].usdt]

\* in_count = stats.get("in", {}).get("count", 0) and the five others
ClearedStats(stats) ==
    [in_count   |-> stats["in"].count,   in_usdt   |-> stats["in"].usdt,
     out_count  |-> stats["out"].count,  out_usdt  |-> stats["out"].usdt,
     send_count |-> stats["send"].count, send_usdt |-> stats["send"].usdt]

\* the clear-data command with the id of the sender in the place of the
\* chat id
ClearDataOfUser(c, u) ==
    IF ~is_bot_admin(u) THEN Answered("clear", c, u, 0, "ignored")
    ELSE LET shown == ClearedStats(cleared_stats(transactions, u, today))
             total == shown.in_count + shown.out_count + shown.send_count
         IN  /\ transactions' =
                    clear_today_transactions(transactions, u, today)
             /\ last' = [Update("clear", c, u, 0,
                                IF total = 0 THEN "nothing_to_clear"
                                ELSE "cleared",
                                TRUE, 0, 0, NoTxn, NoTotals)
                         EXCEPT !.stats = shown]
             /\ UNCHANGED <<variant, next_id, group_config, admins,
                            next_msg, today, conv, tasks, boot,
                            private_chat_users, webvars>>

\* the clear-data command: today's rows of the chat are deleted, the
\* statistics (or the note that there was nothing to clear) and the
\* summary are sent
ClearData(c, u) ==
    IF ~is_bot_admin(u) THEN Answered("clear", c, u, 0, "ignored")
    ELSE LET shown == ClearedStats(cleared_stats(transactions, c, today))
             total == shown.in_count + shown.out_count + shown.send_count
         IN  /\ transactions' =
                    clear_today_transactions(transactions, c, today)
             /\ last' = [Update("clear", c, u, 0,
                                IF total = 0 THEN "nothing_to_clear"
                                ELSE "cleared",
                                TRUE, 0, 0, NoTxn, NoTotals)
                         EXCEPT !.stats = shown]
             /\ UNCHANGED <<variant, next_id, group_config, admins,
                            next_msg, today, conv, tasks, boot,
                            private_chat_users, webvars>>

ConfigFields ==
    {"in_rate", "in_fx", "out_rate", "out_fx"}

\* what may be typed after the setting command of a field
SettingTexts(field) ==
    IF field \in {"in_rate", "out_rate"} THEN Numbers(RateValues)
    ELSE Numbers(FxValues)

\* a setting command that also rewrites the rate or fx of the rows the
\* chat has recorded with the setting
SetConfigRepricing(c, u, field, text) ==
    IF ~is_bot_admin(u) THEN Answered(field, c, u, text.v, "ignored")
    ELSE IF ~text.ok THEN Answered(field, c, u, text.v, "format_error")
    ELSE /\ group_config' = [group_config EXCEPT ![c][field] = text.v]
         /\ transactions' =
                {IF t.chat_id = c /\ t.transaction_type = "in"
                    /\ field = "in_rate"
                 THEN [t EXCEPT !.rate = text.v]
                 ELSE IF t.chat_id = c /\ t.transaction_type = "in"
                         /\ field = "in_fx"
                 THEN [t EXCEPT !.fx = text.v]
                 ELSE t : t \in transactions}
         /\ last' = Update(field, c, u, text.v, "done", FALSE, 0, 0, NoTxn,
                           NoTotals)
         /\ UNCHANGED <<variant, next_id, admins, next_msg, today, conv,
                        tasks, boot, private_chat_users, webvars>>

\* a setting command for an fx that writes the fx of both directions
SetConfigBothFx(c, u, field, text) ==
    IF ~is_bot_admin(u) THEN Answered(field, c, u, text.v, "ignored")
    ELSE IF ~text.ok THEN Answered(field, c, u, text.v, "format_error")
    ELSE /\ group_config' =
                IF field \in {"in_fx", "out_fx"}
                THEN [group_config EXCEPT ![c].in_fx = text.v,
                                          ![c].out_fx = text.v]
                ELSE [group_config EXCEPT ![c][field] = text.v]
         /\ last' = Update(field, c, u, text.v, "done", FALSE, 0, 0, NoTxn,
                           NoTotals)
         /\ UNCHANGED <<variant, transactions, next_id, admins, next_msg,
                        today, conv, tasks, boot, private_chat_users, webvars>>

\* the four setting commands: float() of the text, one field is updated
SetConfig(c, u, field, text) ==
    IF ~is_bot_admin(u) THEN Answered(field, c, u, text.v, "ignored")
    ELSE IF ~text.ok THEN Answered(field, c, u, text.v, "format_error")
    ELSE /\ group_config' = [group_config EXCEPT ![c][field] = text.v]
         /\ last' = Update(field, c, u, text.v, "done", FALSE, 0, 0, NoTxn,
                           NoTotals)
         /\ UNCHANGED <<variant, transactions, next_id, admins, next_msg,
                        today, conv, tasks, boot, private_chat_users, webvars>>

\* one of the view texts other than "+0"; bot.py has no such branch
View(c, u) ==
    IF variant = "app"
    THEN Summarised("view", c, u, 0, "summary", transactions, NoTxn)
    ELSE Answered("view", c, u, 0, "ignored")

\* the more-records texts: render_full_summary as a plain reply
MoreRecords(c, u) ==
    /\ last' = Update("more", c, u, 0, "full_summary", TRUE, 0, 0, NoTxn,
                      NoTotals)
    /\ UNCHANGED <<variant, transactions, next_id, group_config, admins,
                   next_msg, today, conv, tasks, boot, private_chat_users, webvars>>

\* the add-admin texts as a reply to a message of target (0: no reply)
AddAdmin(c, u, target) ==
    IF ~is_bot_admin(u) THEN Answered("add_admin", c, u, target, "ignored")
    ELSE IF target = 0 THEN Answered("add_admin", c, u, target, "need_reply")
    ELSE /\ admins' = admins \cup {target}
         /\ last' = Update("add_admin", c, u, target, "done", FALSE, 0, 0,
                           NoTxn, NoTotals)
         /\ UNCHANGED <<variant, transactions, next_id, group_config,
                        next_msg, today, conv, tasks, boot,
                        private_chat_users, webvars>>

\* the remove-admin texts as a reply to a message of target (0: no reply)
RemoveAdmin(c, u, target) ==
    IF ~is_bot_admin(u) THEN Answered("remove_admin", c, u, target, "ignored")
    ELSE IF target = 0
    THEN Answered("remove_admin", c, u, target, "need_reply")
    ELSE /\ admins' = admins \ {target}
         /\ last' = Update("remove_admin", c, u, target, "done", FALSE, 0, 0,
                           NoTxn, NoTotals)
         /\ UNCHANGED <<variant, transactions, next_id, group_config,
                        next_msg, today, conv, tasks, boot,
                        private_chat_users, webvars>>

\* the texts sent in private chats: the texts of the group commands, the
\* broadcast word with a content, and the help word
PrivateTexts ==
    {"deposit", "withdrawal", "send", "undo", "clear", "defaults", "in_fx",
     "add_admin", "remove_admin", "broadcast", "help"}

\* a private message that runs on into the branches for the group chats:
\* the disbursement word of a bot admin adds a row under the id of the
\* private chat, which is the id of the user
PrivateMessageRunsOn(u, text) ==
    /\ private_chat_users' = private_chat_users \cup {u}
    /\ last' = [Update(text, 0, u, 0,
                       IF u # OWNER_ID THEN "forwarded"
                       ELSE IF text = "broadcast" THEN "broadcast"
                       ELSE IF text = "help" THEN "owner_help"
                       ELSE "ignored",
                       FALSE, 0, 0, NoTxn, NoTotals)
                EXCEPT !.chat_type = "private"]
    /\ IF text = "send" /\ is_bot_admin(u)
       THEN /\ next_id <= MaxTxn
            /\ transactions' =
                   add_transaction(transactions, u, "send", 29, 0, 0, 29, u)
            /\ next_id' = next_id + 1
       ELSE UNCHANGED <<transactions, next_id>>
    /\ UNCHANGED <<variant, group_config, admins, next_msg, today, conv,
                   tasks, boot, webvars>>

\* handle_text for chat.type == "private": the user is entered in the table
\* of private chat users and the message is logged; the owner may broadcast
\* or ask for help, the message of anybody else is forwarded to the owner;
\* then the handler returns
PrivateMessage(u, text) ==
    /\ private_chat_users' = private_chat_users \cup {u}
    /\ last' = [Update(text, 0, u, 0,
                       IF u # OWNER_ID THEN "forwarded"
                       ELSE IF text = "broadcast" THEN "broadcast"
                       ELSE IF text = "help" THEN "owner_help"
                       ELSE "ignored",
                       FALSE, 0, 0, NoTxn, NoTotals)
                EXCEPT !.chat_type = "private"]
    /\ UNCHANGED <<variant, transactions, next_id, group_config, admins,
                   next_msg, today, conv, tasks, boot, webvars>>

\* midnight in Beijing: a new period starts for every chat
Midnight ==
    /\ today < MaxDay
    /\ today' = today + 1
    /\ last' = NoUpdate
    /\ UNCHANGED <<variant, transactions, next_id, group_config, admins,
                   next_msg, conv, tasks, boot, private_chat_users, webvars>>

\* ------------------------------------------------------------------------
\* Specifications
\* ------------------------------------------------------------------------

\* The ledger: recording, undoing, clearing and viewing, in chats that are
\* unconfigured or carry the default rates.
Next ==
    \/ \E c \in Chats, u \in Users, amt \in RawAmounts : Deposit(c, u, amt)
    \/ \E c \in Chats, u \in Users, amt \in RawAmounts : Withdrawal(c, u, amt)
    \/ \E c \in Chats, u \in Users, text \in Numbers(SendValues) :
          Send(c, u, text)
    \/ \E c \in Chats, u \in Users, reply_to \in 0..MaxTxn :
          Undo(c, u, reply_to)
    \/ \E u \in Users, message_id \in 0..MaxTxn : api_rollback(u, message_id)
    \/ \E c \in Chats, u \in Users : ResetDefaults(c, u)
    \/ \E c \in Chats, u \in Users : ClearData(c, u)
    \/ \E c \in Chats, u \in Users : View(c, u)
    \/ \E c \in Chats, u \in Users : MoreRecords(c, u)
    \/ Midnight

Spec ==
    Init /\ [][Next]_vars

\* The four settings of the chats and the deposits recorded under them;
\* all commands come from the owner.
SettingsNext ==
    \/ \E c \in Chats, field \in ConfigFields :
          \E text \in SettingTexts(field) :
              SetConfig(c, OWNER_ID, field, text)
    \/ \E c \in Chats, amt \in RawAmounts : Deposit(c, OWNER_ID, amt)

SettingsSpec ==
    Init /\ [][SettingsNext]_vars

\* Chats from their first message on: the two fx settings and the deposits
\* and withdrawals that need them.
SetupNext ==
    \/ \E c \in Chats, u \in Users, field \in {"in_fx", "out_fx"} :
          \E text \in SettingTexts(field) : SetConfig(c, u, field, text)
    \/ \E c \in Chats, u \in Users, amt \in RawAmounts : Deposit(c, u, amt)
    \/ \E c \in Chats, u \in Users, amt \in RawAmounts : Withdrawal(c, u, amt)

SetupSpec ==
    Init /\ [][SetupNext]_vars

\* How the record commands take the amounts typed, zero and amounts below 1
\* included, in chats without settings or with the default ones.
EntryNext ==
    \/ \E c \in Chats, u \in Users : ResetDefaults(c, u)
    \/ \E c \in Chats, u \in Users, amt \in EntryAmounts : Deposit(c, u, amt)
    \/ \E c \in Chats, u \in Users, amt \in EntryAmounts :
          Withdrawal(c, u, amt)
    \/ \E c \in Chats, u \in Users, text \in Numbers(EntrySendValues) :
          Send(c, u, text)

EntrySpec ==
    Init /\ [][EntryNext]_vars

\* the group chat of AuthSpec
AuthChat == 1

\* Every command of handle_text in one group chat, from the owner and from
\* a user who is made a bot admin and removed again.
AuthNext ==
    \E c \in {AuthChat}, u \in Users :
        \/ \E target \in Users \cup {0} : AddAdmin(c, u, target)
        \/ \E target \in Users \cup {0} : RemoveAdmin(c, u, target)
        \/ \E amt \in RawAmounts : Deposit(c, u, amt)
        \/ \E amt \in RawAmounts : Withdrawal(c, u, amt)
        \/ \E text \in Numbers(SendValues) : Send(c, u, text)
        \/ \E reply_to \in 0..MaxTxn : Undo(c, u, reply_to)
        \/ ResetDefaults(c, u)
        \/ ClearData(c, u)
        \/ \E field \in {"in_rate", "in_fx"} :
              \E text \in SettingTexts(field) : SetConfig(c, u, field, text)
        \/ View(c, u)
        \/ MoreRecords(c, u)

AuthSpec ==
    Init /\ [][AuthNext]_vars

\* Private messages of the owner and of another user, next to group
\* commands that fill the tables.
PrivateNext ==
    \/ \E u \in Users, text \in PrivateTexts : PrivateMessage(u, text)
    \/ \E c \in Chats, u \in Users, text \in Numbers(SendValues) :
          Send(c, u, text)
    \/ \E c \in Chats, u \in Users : ResetDefaults(c, u)
    \/ \E c \in Chats, u \in Users, target \in Users \cup {0} :
          AddAdmin(c, u, target)

PrivateSpec ==
    Init /\ [][PrivateNext]_vars

\* ------------------------------------------------------------------------
\* The web side: tokens, login_required and the routes behind it
\* ------------------------------------------------------------------------

\* the numbers that occur in tokens: ids of chats and users, and times
WebInts ==
    0..(MaxNow + Lifetime)

\* int(s) of a field of a token: the number n when s is the decimal digits
\* of n, also after zeros or blanks, and ValueError otherwise
int(s) ==
    LET IntTexts(n) == {ToString(n), "0" \o ToString(n), " " \o ToString(n)}
    IN  IF \E n \in WebInts : s \in IntTexts(n)
        THEN [ok |-> TRUE, v |-> CHOOSE n \in WebInts : s \in IntTexts(n)]
        ELSE [ok |-> FALSE, v |-> 0]

\* data = f"{chat_id}:{user_id}:{expires_at}"
data(chat_id, user_id, expires_at) ==
    ToString(chat_id) \o ":" \o ToString(user_id) \o ":"
        \o ToString(expires_at)

\* hmac.new(key.encode(), d.encode(), hashlib.sha256).hexdigest(): a text
\* that differs for different keys or data (HMAC-SHA256 taken as free of
\* collisions)
hexdigest(key, d) ==
    "hmac(" \o key \o "," \o d \o ")"

\* A token is kept as the list of its fields, token.split(":"): the empty
\* text is the list of one empty field.
\* generate_web_token(chat_id, user_id, expires_hours)
generate_web_token(chat_id, user_id, expires_hours) ==
    IF SESSION_SECRET = "None" THEN NoToken
    ELSE LET expires_at == now + expires_hours
         IN  <<ToString(chat_id), ToString(user_id), ToString(expires_at),
               hexdigest(SESSION_SECRET, data(chat_id, user_id, expires_at))>>

\* verify_token returning None
NoUser ==
    [ok |-> FALSE, chat_id |-> 0, user_id |-> 0]

\* verify_token(token): the user_info of the token, or None
verify_token(token) ==
    IF SESSION_SECRET = "None" THEN NoUser
    ELSE IF Len(token) # 4 THEN NoUser
    ELSE LET chat_id    == int(token[1])
             user_id    == int(token[2])
             expires_at == int(token[3])
         IN  IF ~chat_id.ok \/ ~user_id.ok \/ ~expires_at.ok THEN NoUser
             ELSE IF token[4] # hexdigest(SESSION_SECRET,
                                          data(chat_id.v, user_id.v,
                                               expires_at.v))
             THEN NoUser
             ELSE IF now > expires_at.v THEN NoUser
             ELSE [ok |-> TRUE, chat_id |-> chat_id.v, user_id |-> user_id.v]

\* "not token": no token, or the empty text
Falsy(token) ==
    token = NoToken \/ token = <<"">>

\* the tokens of the requests: none, the empty text, the link of a summary
\* sent now, the links of a summary sent at time 0 signed with the secret,
\* as they are and with a field rewritten, dropped or added, and such links
\* signed with the text "None" or with another key
RequestTokens ==
    LET OldLink(key, c, u) ==
            <<ToString(c), ToString(u), ToString(Lifetime),
              hexdigest(key, data(c, u, Lifetime))>>
        Mangled(b) ==
            {b,
             [b EXCEPT ![1] = "0" \o b[1]],
             [b EXCEPT ![1] = "x"],
             [b EXCEPT ![2] = ToString(OWNER_ID)],
             [b EXCEPT ![3] = ToString(MaxNow + Lifetime)],
             SubSeq(b, 1, 3),
             b \o <<"x">>}
    IN  {NoToken, <<"">>}
            \cup ({generate_web_token(WebChat, u, Lifetime) : u \in Users}
                      \ {NoToken})
            \cup UNION {Mangled(OldLink("k", WebChat, u)) : u \in Users}
            \cup {OldLink(key, WebChat, u) :
                     key \in {"None", "other"}, u \in Users}

\* the answer of a request login_required turns away
Denied(f, query) ==
    /\ response' = [status |-> "403", route |-> f, ran |-> FALSE,
                    chat |-> 0, user |-> 0, query |-> query,
                    cookie |-> session.token, at |-> now]
    /\ UNCHANGED <<variant, transactions, next_id, group_config, admins,
                   next_msg, today, last, conv, tasks, boot,
                   private_chat_users, SESSION_SECRET, session, now>>

\* the body of route f for the user_info of the session: the dashboard and
\* the transactions of the day are read, the rollback deletes for the owner
RouteBody(f, query, user_info, message_id) ==
    LET answer(status) ==
            [status |-> status, route |-> f, ran |-> TRUE,
             chat |-> user_info.chat_id, user |-> user_info.user_id,
             query |-> query, cookie |-> session.token, at |-> now]
    IN  IF f # "api_rollback"
        THEN /\ response' = answer("200")
             /\ UNCHANGED transactions
        ELSE IF user_info.user_id # OWNER_ID
        THEN /\ response' = answer("403")
             /\ UNCHANGED transactions
        ELSE IF message_id = 0
        THEN /\ response' = answer("400")
             /\ UNCHANGED transactions
        ELSE \E r \in delete_transaction_by_message_id(transactions,
                                                        message_id) :
                /\ transactions' = r.txns
                /\ response' = answer(IF r.deleted # NoTxn THEN "200"
                                      ELSE "404")

\* login_required without the check of a token that comes from the session
login_required_once(f, query, message_id) ==
    LET token     == IF ~Falsy(query) THEN query ELSE session.token
        user_info == IF Falsy(query) /\ ~Falsy(session.token)
                     THEN [ok |-> TRUE,
                           chat_id |-> session.user_info.chat_id,
                           user_id |-> session.user_info.user_id]
                     ELSE verify_token(token)
    IN  IF Falsy(token) THEN Denied(f, query)
        ELSE IF ~user_info.ok THEN Denied(f, query)
        ELSE /\ session' = [token |-> token,
                            user_info |-> [chat_id |-> user_info.chat_id,
                                           user_id |-> user_info.user_id]]
             /\ RouteBody(f, query, user_info, message_id)
             /\ UNCHANGED <<variant, next_id, group_config, admins,
                            next_msg, today, last, conv, tasks, boot,
                            private_chat_users, SESSION_SECRET, now>>

\* a request for route f with the token of the query string (NoToken: none)
\* from a browser that holds the session: login_required, then the route
login_required(f, query, message_id) ==
    LET token     == IF ~Falsy(query) THEN query ELSE session.token
        user_info == verify_token(token)
    IN  IF Falsy(token) THEN Denied(f, query)
        ELSE IF ~user_info.ok THEN Denied(f, query)
        ELSE /\ session' = [token |-> token,
                            user_info |-> [chat_id |-> user_info.chat_id,
                                           user_id |-> user_info.user_id]]
             /\ RouteBody(f, query, user_info, message_id)
             /\ UNCHANGED <<variant, next_id, group_config, admins,
                            next_msg, today, last, conv, tasks, boot,
                            private_chat_users, SESSION_SECRET, now>>

\* datetime.now() moves on
Tick ==
    /\ now < MaxNow
    /\ now' = now + 1
    /\ UNCHANGED <<variant, transactions, next_id, group_config, admins,
                   next_msg, today, last, conv, tasks, boot,
                   private_chat_users, SESSION_SECRET, session, response>>

\* the program started with or without SESSION_SECRET
WebInit ==
    /\ variant \in {"app", "bot"}
    /\ transactions = {}
    /\ next_id = 1
    /\ group_config = [c \in Chats |-> ZeroConfig]
    /\ admins = {OWNER_ID}
    /\ next_msg = [c \in Chats |-> 1]
    /\ today = 0
    /\ last = NoUpdate
    /\ conv = ConvIdle
    /\ tasks = NoTasks
    /\ boot = Started
    /\ private_chat_users = {}
    /\ SESSION_SECRET \in Secrets
    /\ session = [token |-> NoToken,
                  user_info |-> [chat_id |-> 0, user_id |-> 0]]
    /\ now = 0
    /\ response = [status |-> "none", route |-> "none", ran |-> FALSE,
                   chat |-> 0, user |-> 0, query |-> NoToken,
                   cookie |-> NoToken, at |-> 0]

\* Requests with and without tokens while the clock runs, next to the
\* owner's payouts in one chat that give the rollback rows to delete.
WebNext ==
    \/ \E f \in {"dashboard", "api_transactions", "api_rollback"},
          query \in RequestTokens, message_id \in 0..WebRows :
          login_required(f, query, message_id)
    \/ Tick
    \/ /\ next_id <= WebRows
       /\ Send(WebChat, OWNER_ID, [ok |-> TRUE, v |-> 29])

WebSpec ==
    WebInit /\ [][WebNext]_vars

\* The admin table and the commands it guards.
AdminNext ==
    \/ \E c \in Chats, u \in Users, target \in Users \cup {0} :
          AddAdmin(c, u, target)
    \/ \E c \in Chats, u \in Users, target \in Users \cup {0} :
          RemoveAdmin(c, u, target)
    \/ \E c \in Chats, u \in Users, text \in Numbers(SendValues) :
          Send(c, u, text)
    \/ \E c \in Chats, u \in Users, reply_to \in 0..MaxTxn :
          Undo(c, u, reply_to)
    \/ \E c \in Chats, u \in Users : ClearData(c, u)

AdminSpec ==
    Init /\ [][AdminNext]_vars

\* The two conversions as pure functions: the inputs are drawn at the start,
\* a step applies the conversion of the deposit or of the withdrawal branch.
ConvAmounts == {100, 39100, 351900, 500000, 1000000}

ConvRates == {0, 2, 10, 20}

ConvFx == {8, 137, 142, 153}

ConvInit ==
    /\ variant \in {"app", "bot"}
    /\ transactions = {}
    /\ next_id = 1
    /\ group_config = [c \in Chats |-> ZeroConfig]
    /\ admins = {OWNER_ID}
    /\ next_msg = [c \in Chats |-> 1]
    /\ today = 0
    /\ last = NoUpdate
    /\ conv \in {[kind |-> "input", amt |-> a, pct |-> r, fx |-> f, usdt |-> 0] :
                    a \in ConvAmounts, r \in ConvRates, f \in ConvFx}
    /\ tasks = NoTasks
    /\ boot = Started
    /\ private_chat_users = {}
    /\ SESSION_SECRET = "k"
    /\ session = [token |-> NoToken,
                  user_info |-> [chat_id |-> 0, user_id |-> 0]]
    /\ now = 0
    /\ response = [status |-> "none", route |-> "none", ran |-> FALSE,
                   chat |-> 0, user |-> 0, query |-> NoToken,
                   cookie |-> NoToken, at |-> 0]

ConvDeposit ==
    /\ conv.kind = "input"
    /\ conv' = [conv EXCEPT !.kind = "deposit",
                            !.usdt = DepositUsdt(conv.amt, conv.pct, conv.fx)]
    /\ UNCHANGED <<variant, transactions, next_id, group_config, admins,
                   next_msg, today, last, tasks, boot, private_chat_users, webvars>>

ConvWithdrawal ==
    /\ conv.kind = "input"
    /\ conv' = [conv EXCEPT !.kind = "withdrawal",
                            !.usdt = WithdrawalUsdt(conv.amt, conv.pct, conv.fx)]
    /\ UNCHANGED <<variant, transactions, next_id, group_config, admins,
                   next_msg, today, last, tasks, boot, private_chat_users, webvars>>

ConvNext ==
    ConvDeposit \/ ConvWithdrawal

ConvSpec ==
    ConvInit /\ [][ConvNext]_vars

\* ------------------------------------------------------------------------
\* The event loop: the webhook hands every update to the loop as a
\* coroutine of its own, so the handlers of several updates are in flight
\* at once and take turns where they await Telegram.
\* ------------------------------------------------------------------------

\* the commands a run of RaceSpec sends: a deposit, a withdrawal, the
\* disbursement word followed by a text, and the clear-data command
RaceInputs ==
    {[cmd |-> k, text |-> [ok |-> TRUE, v |-> a]] :
        k \in {"deposit", "withdrawal"}, a \in RawAmounts}
    \cup {[cmd |-> "send", text |-> t] : t \in Numbers(SendValues)}
    \cup {[cmd |-> "clear", text |-> [ok |-> TRUE, v |-> 0]]}

\* the slots of the loop that hold no update, lowest first
FreeSlots(tsk) ==
    {p \in Tasks : tsk[p].pc = "free"}

FirstFree(tsk) ==
    CHOOSE p \in FreeSlots(tsk) : \A q \in FreeSlots(tsk) : p <= q

\* the update_id of the next update Telegram posts
NextUpdateId ==
    Cardinality({tasks[p].update_id : p \in Tasks} \ {0}) + 1

\* the coroutine of one update scheduled two times
ScheduleTwice(tsk, upd) ==
    LET p    == FirstFree(tsk)
        once == [tsk EXCEPT ![p] = upd]
    IN  IF FreeSlots(once) = {} THEN once
        ELSE [once EXCEPT ![FirstFree(once)] = upd]

\* asyncio.run_coroutine_threadsafe(telegram_app.process_update(update),
\* bot_loop): one coroutine for the update
Schedule(tsk, upd) ==
    [tsk EXCEPT ![FirstFree(tsk)] = upd]

\* POST /webhook/<token> with an update of a group chat.  While a global
\* is None app.py answers "Bot not ready", 500; bot.py fails in
\* telegram_app.bot and answers "Error", 500.
webhook(c, u, input) ==
    IF boot.telegram_app = "None" \/ boot.bot_loop = "None"
    THEN /\ boot' = [boot EXCEPT !.answer = "500"]
         /\ UNCHANGED <<variant, transactions, next_id, group_config, admins,
                        next_msg, today, last, conv, tasks,
                        private_chat_users, webvars>>
    ELSE /\ FreeSlots(tasks) # {}
         /\ tasks' = Schedule(tasks,
                              [FreeTask EXCEPT !.pc = "scheduled",
                                               !.update_id = NextUpdateId,
                                               !.cmd = input.cmd, !.chat = c,
                                               !.user = u,
                                               !.text = input.text])
         /\ boot' = [boot EXCEPT !.answer = "200"]
         /\ UNCHANGED <<variant, transactions, next_id, group_config, admins,
                        next_msg, today, last, conv, private_chat_users, webvars>>

\* what a record command comes to before its handler awaits Telegram for
\* the first time: the kind of answer and, for "summary", the row it adds
Outcome(cmd, c, u, text) ==
    LET config == group_config[c]
        none   == [reply |-> "ignored", type |-> "none", amount |-> 0,
                   rate |-> 0, fx |-> 0, usdt |-> 0]
    IN  IF cmd = "send"
        THEN IF ~is_bot_admin(u) THEN none
             ELSE IF ~text.ok THEN [none EXCEPT !.reply = "format_error"]
             ELSE [reply |-> "summary", type |-> "send",
                   amount |-> Abs(text.v), rate |-> 0, fx |-> 0,
                   usdt |-> Abs(text.v)]
        ELSE IF ~RecordBranch(text.v) \/ ~is_bot_admin(u) THEN none
        ELSE IF cmd = "deposit"
        THEN IF FxMissing(config.in_fx)
             THEN [none EXCEPT !.reply = "config_error"]
             ELSE [reply |-> "summary", type |-> "in", amount |-> text.v,
                   rate |-> config.in_rate, fx |-> config.in_fx,
                   usdt |-> DepositUsdt(text.v, config.in_rate,
                                        config.in_fx)]
        ELSE IF FxMissing(config.out_fx)
             THEN [none EXCEPT !.reply = "config_error"]
             ELSE [reply |-> "summary", type |-> "out", amount |-> text.v,
                   rate |-> config.out_rate, fx |-> config.out_fx,
                   usdt |-> WithdrawalUsdt(text.v, config.out_rate,
                                           config.out_fx)]

\* the handler of a record command up to "await ...reply_text" in
\* send_summary_with_button: the checks, add_transaction and the rendering
RecordBegin(p) ==
    LET t == tasks[p]
    IN  \E o \in {Outcome(t.cmd, t.chat, t.user, t.text)} :
        /\ t.pc = "scheduled"
        /\ t.cmd \in {"deposit", "withdrawal", "send"}
        /\ IF o.reply # "summary"
           THEN /\ tasks' = [tasks EXCEPT ![p].pc = "done",
                                          ![p].reply = o.reply]
                /\ UNCHANGED <<transactions, next_id>>
           ELSE /\ next_id <= MaxTxn
                /\ transactions' =
                       add_transaction(transactions, t.chat, o.type, o.amount,
                                       o.rate, o.fx, o.usdt, t.user)
                /\ next_id' = next_id + 1
                /\ tasks' = [tasks EXCEPT ![p].pc = "sending",
                                          ![p].reply = "summary",
                                          ![p].txn_id = next_id]
        /\ UNCHANGED <<variant, group_config, admins, next_msg, today, last,
                       conv, boot, private_chat_users, webvars>>

\* Telegram has taken the bill of the handler and numbered it; the handler
\* has not run on yet
BillDelivered(p) ==
    LET t == tasks[p]
    IN  /\ t.pc = "sending"
        /\ tasks' = [tasks EXCEPT ![p].pc = "delivered",
                                  ![p].msg = next_msg[t.chat]]
        /\ next_msg' = [next_msg EXCEPT ![t.chat] = @ + 1]
        /\ UNCHANGED <<variant, transactions, next_id, group_config, admins,
                       today, last, conv, boot, private_chat_users, webvars>>

\* the handler writes the id of its bill over whatever the row carries
RecordAttachOverwrite(p) ==
    LET t == tasks[p]
    IN  /\ t.pc = "delivered"
        /\ transactions' =
               {IF r.id = t.txn_id THEN [r EXCEPT !.message_id = t.msg]
                ELSE r : r \in transactions}
        /\ tasks' = [tasks EXCEPT ![p].pc = "done"]
        /\ UNCHANGED <<variant, next_id, group_config, admins, next_msg,
                       today, last, conv, boot, private_chat_users, webvars>>

\* the handler runs on after the await: update_transaction_message_id with
\* its txn_id and the id of its bill; an exception is logged
RecordAttach(p) ==
    LET t == tasks[p]
    IN  /\ t.pc = "delivered"
        /\ transactions' =
               update_transaction_message_id(transactions, t.txn_id, t.msg)
        /\ tasks' = [tasks EXCEPT ![p].pc = "done"]
        /\ UNCHANGED <<variant, next_id, group_config, admins, next_msg,
                       today, last, conv, boot, private_chat_users, webvars>>

\* the handler of the clear-data command up to its first await
ClearBegin(p) ==
    LET t     == tasks[p]
        shown == ClearedStats(cleared_stats(transactions, t.chat, today))
        total == shown.in_count + shown.out_count + shown.send_count
    IN  /\ t.pc = "scheduled"
        /\ t.cmd = "clear"
        /\ IF ~is_bot_admin(t.user)
           THEN /\ tasks' = [tasks EXCEPT ![p].pc = "done",
                                          ![p].reply = "ignored"]
                /\ UNCHANGED transactions
           ELSE /\ transactions' =
                       clear_today_transactions(transactions, t.chat, today)
                /\ tasks' = [tasks EXCEPT
                                ![p].pc = "replying",
                                ![p].reply = IF total = 0
                                             THEN "nothing_to_clear"
                                             ELSE "cleared",
                                ![p].stats = shown]
        /\ UNCHANGED <<variant, next_id, group_config, admins, next_msg,
                       today, last, conv, boot, private_chat_users, webvars>>

\* the statistics and the summary of the clear-data command are sent
ClearEnd(p) ==
    /\ tasks[p].pc = "replying"
    /\ tasks' = [tasks EXCEPT ![p].pc = "done"]
    /\ UNCHANGED <<variant, transactions, next_id, group_config, admins,
                   next_msg, today, last, conv, boot, private_chat_users, webvars>>

\* the chats carry the rates of the reset-defaults command
RaceInit ==
    /\ variant \in {"app", "bot"}
    /\ transactions = {}
    /\ next_id = 1
    /\ group_config = [c \in Chats |-> IF variant = "app" THEN DefaultsApp
                                       ELSE DefaultsBot]
    /\ admins = {OWNER_ID}
    /\ next_msg = [c \in Chats |-> 1]
    /\ today = 0
    /\ last = NoUpdate
    /\ conv = ConvIdle
    /\ tasks = NoTasks
    /\ boot = Started
    /\ private_chat_users = {}
    /\ SESSION_SECRET = "k"
    /\ session = [token |-> NoToken,
                  user_info |-> [chat_id |-> 0, user_id |-> 0]]
    /\ now = 0
    /\ response = [status |-> "none", route |-> "none", ran |-> FALSE,
                   chat |-> 0, user |-> 0, query |-> NoToken,
                   cookie |-> NoToken, at |-> 0]

RaceNext ==
    \/ \E c \in Chats, u \in Users, input \in RaceInputs : webhook(c, u, input)
    \/ \E p \in Tasks : RecordBegin(p)
    \/ \E p \in Tasks : BillDelivered(p)
    \/ \E p \in Tasks : RecordAttach(p)
    \/ \E p \in Tasks : ClearBegin(p)
    \/ \E p \in Tasks : ClearEnd(p)

RaceSpec ==
    RaceInit /\ [][RaceNext]_vars

\* "await update.message.reply_text(...)" raises (Telegram refuses the
\* message or cannot be reached): the exception leaves handle_text, the
\* lines after the await do not run
BillFailed(p) ==
    /\ tasks[p].pc = "sending"
    /\ tasks' = [tasks EXCEPT ![p].pc = "done", ![p].reply = "send_failed"]
    /\ UNCHANGED <<variant, transactions, next_id, group_config, admins,
                   next_msg, today, last, conv, boot, private_chat_users, webvars>>

\* db.update_transaction_message_id raises: "except Exception" logs the
\* error and the handler returns
AttachFailed(p) ==
    /\ tasks[p].pc = "delivered"
    /\ tasks' = [tasks EXCEPT ![p].pc = "done", ![p].reply = "attach_failed"]
    /\ UNCHANGED <<variant, transactions, next_id, group_config, admins,
                   next_msg, today, last, conv, boot, private_chat_users, webvars>>

\* Disbursements whose bill or whose attach may fail.  The loop runs every
\* coroutine on, and every request to Telegram or to the database ends,
\* with a result or with an exception.
DeliveryNext ==
    \/ \E c \in Chats, text \in Numbers(SendValues) :
          webhook(c, OWNER_ID, [cmd |-> "send", text |-> text])
    \/ \E p \in Tasks : RecordBegin(p)
    \/ \E p \in Tasks : BillDelivered(p)
    \/ \E p \in Tasks : BillFailed(p)
    \/ \E p \in Tasks : RecordAttach(p)
    \/ \E p \in Tasks : AttachFailed(p)

DeliverySpec ==
    /\ Init
    /\ [][DeliveryNext]_vars
    /\ WF_vars(\E p \in Tasks : RecordBegin(p))
    /\ WF_vars(\E p \in Tasks : BillDelivered(p) \/ BillFailed(p))
    /\ WF_vars(\E p \in Tasks : RecordAttach(p) \/ AttachFailed(p))

\* the handler of the undo word, sent as a reply to the message text.v of
\* the chat, up to its first await: delete_transaction_by_message_id and
\* the choice of the answer
UndoBegin(p) ==
    LET t == tasks[p]
    IN  /\ t.pc = "scheduled"
        /\ t.cmd = "undo"
        /\ IF ~is_bot_admin(t.user)
           THEN /\ tasks' = [tasks EXCEPT ![p].pc = "done",
                                          ![p].reply = "ignored"]
                /\ UNCHANGED transactions
           ELSE \E r \in delete_transaction_by_message_id(
                             transactions, target_msg_id(t.text.v)) :
                   /\ transactions' = r.txns
                   /\ tasks' = [tasks EXCEPT
                                   ![p].pc = "done",
                                   ![p].reply = IF r.deleted # NoTxn
                                                THEN "undone"
                                                ELSE "not_found",
                                   ![p].txn_id = r.deleted.id]
        /\ UNCHANGED <<variant, next_id, group_config, admins, next_msg,
                       today, last, conv, boot, private_chat_users, webvars>>

\* Disbursements and undo replies to the bills Telegram has delivered, with
\* the handlers of both in flight at once.
UndoRaceNext ==
    \/ \E c \in Chats, text \in Numbers(SendValues) :
          webhook(c, OWNER_ID, [cmd |-> "send", text |-> text])
    \/ \E c \in Chats, u \in Users, reply_to \in 1..MaxTxn :
          /\ reply_to < next_msg[c]
          /\ webhook(c, u, [cmd |-> "undo",
                            text |-> [ok |-> TRUE, v |-> reply_to]])
    \/ \E p \in Tasks : RecordBegin(p)
    \/ \E p \in Tasks : BillDelivered(p)
    \/ \E p \in Tasks : RecordAttach(p)
    \/ \E p \in Tasks : UndoBegin(p)

UndoRaceSpec ==
    Init /\ [][UndoRaceNext]_vars

\* ------------------------------------------------------------------------
\* The start of the program: the main thread starts the thread of the bot
\* and then serves the webhook, while the thread of the bot creates the
\* loop and sets up the Telegram application on it.
\* ------------------------------------------------------------------------

\* run_bot_loop, first lines: bot_loop = asyncio.new_event_loop()
run_bot_loop ==
    /\ boot.pc = "start"
    /\ boot' = [boot EXCEPT !.pc = "loop_created", !.bot_loop = "created"]
    /\ UNCHANGED <<variant, transactions, next_id, group_config, admins,
                   next_msg, today, last, conv, tasks, private_chat_users, webvars>>

\* bot_loop.run_until_complete(setup_telegram_bot()) up to the point where
\* "await telegram_app.initialize()" waits for Telegram: the loop runs, the
\* global telegram_app holds the application that has been built
setup_telegram_bot ==
    /\ boot.pc = "loop_created"
    /\ boot' = [boot EXCEPT !.pc = "initializing", !.bot_loop = "running",
                            !.telegram_app = "built"]
    /\ UNCHANGED <<variant, transactions, next_id, group_config, admins,
                   next_msg, today, last, conv, tasks, private_chat_users, webvars>>

\* "await telegram_app.initialize()" returns; the rest of the setup and
\* run_forever follow
initialize ==
    /\ boot.pc = "initializing"
    /\ boot' = [boot EXCEPT !.pc = "ready", !.telegram_app = "initialized"]
    /\ UNCHANGED <<variant, transactions, next_id, group_config, admins,
                   next_msg, today, last, conv, tasks, private_chat_users, webvars>>

\* the running loop starts the coroutine telegram_app.process_update(update)
\* that the webhook has scheduled; what is remembered is whether the
\* application was initialised by then
process_update(p) ==
    /\ tasks[p].pc = "scheduled"
    /\ boot.bot_loop = "running"
    /\ tasks' = [tasks EXCEPT
                    ![p].pc = "done",
                    ![p].reply = IF boot.telegram_app = "initialized"
                                 THEN "processed"
                                 ELSE "before_initialize"]
    /\ UNCHANGED <<variant, transactions, next_id, group_config, admins,
                   next_msg, today, last, conv, boot, private_chat_users, webvars>>

BootInit ==
    /\ variant \in {"app", "bot"}
    /\ transactions = {}
    /\ next_id = 1
    /\ group_config = [c \in Chats |-> ZeroConfig]
    /\ admins = {OWNER_ID}
    /\ next_msg = [c \in Chats |-> 1]
    /\ today = 0
    /\ last = NoUpdate
    /\ conv = ConvIdle
    /\ tasks = NoTasks
    /\ boot = NotStarted
    /\ private_chat_users = {}
    /\ SESSION_SECRET = "k"
    /\ session = [token |-> NoToken,
                  user_info |-> [chat_id |-> 0, user_id |-> 0]]
    /\ now = 0
    /\ response = [status |-> "none", route |-> "none", ran |-> FALSE,
                   chat |-> 0, user |-> 0, query |-> NoToken,
                   cookie |-> NoToken, at |-> 0]

BootNext ==
    \/ run_bot_loop
    \/ setup_telegram_bot
    \/ initialize
    \/ \E c \in Chats, u \in Users, input \in RaceInputs : webhook(c, u, input)
    \/ \E p \in Tasks : process_update(p)

BootSpec ==
    BootInit /\ [][BootNext]_vars

\* ------------------------------------------------------------------------
\* The attach operation of the store called with any id and reference,
\* next to disbursements whose handlers are in flight.
\* ------------------------------------------------------------------------

\* how db.update_transaction_message_id(txn_id, message_id) ends
attach_result(txns, id, ref) ==
    IF \A t \in txns : t.id # id THEN "NotFoundError"
    ELSE IF \E t \in txns : t.id = id /\ t.message_id \notin {0, ref}
    THEN "ConflictError"
    ELSE "ok"

\* a call of db.update_transaction_message_id(id, ref)
Attach(id, ref) ==
    /\ transactions' = update_transaction_message_id(transactions, id, ref)
    /\ last' = Update("attach", 0, 0, id,
                      attach_result(transactions, id, ref), FALSE, 0, ref,
                      NoTxn, NoTotals)
    /\ UNCHANGED <<variant, next_id, group_config, admins, next_msg, today,
                   conv, tasks, boot, private_chat_users, webvars>>

AttachNext ==
    \/ \E c \in Chats, text \in Numbers(SendValues) :
          webhook(c, OWNER_ID, [cmd |-> "send", text |-> text])
    \/ \E p \in Tasks : RecordBegin(p)
    \/ \E p \in Tasks : BillDelivered(p)
    \/ \E p \in Tasks : RecordAttach(p)
    \/ \E id \in 1..MaxTxn + 1, ref \in 1..MaxTxn : Attach(id, ref)

AttachSpec ==
    Init /\ [][AttachNext]_vars

\* ------------------------------------------------------------------------
\* Properties
\* ------------------------------------------------------------------------

\* the totals of the summary that the update handled last has shown
Shown ==
    render_group_summary(transactions, last.chat, today)

\* the stored totals of the chat of the update handled last
Stored ==
    Totals(transactions, last.chat, today)

RecordCmds ==
    {"deposit", "withdrawal", "send"}

\* raw * (1 - rate) / fx cut off after two decimals (hundredths, raw >= 0)
ExactDeposit(amt, pct, fx) ==
    (amt * (100 - pct)) \div (100 * fx)

\* raw * (1 + rate) / fx rounded to two decimals, a half cent upwards
ExactWithdrawal(amt, pct, fx) ==
    (2 * amt * (100 + pct) + 100 * fx) \div (200 * fx)

\* C1: in one chat, a disbursement of +v directly followed by a disbursement
\* of -v leaves the stored sent total of the chat at its value before the
\* two commands, and the two transactions carry two different references
\* of their own, so that each can be undone.
C1_DisbursementNetZero ==
    [][(/\ last.cmd = "send" /\ last.txn_id # 0 /\ last.arg > 0
        /\ last'.cmd = "send" /\ last'.txn_id # 0
        /\ last'.chat = last.chat /\ last'.arg = -last.arg)
       => /\ Totals(transactions', last.chat, today').sent = last.before.sent
          /\ \E t1, t2 \in transactions' :
                /\ t1.id = last.txn_id /\ t2.id = last'.txn_id
                /\ t1.message_id # 0 /\ t2.message_id # 0
                /\ t1.message_id # t2.message_id]_vars

\* C2: the transaction created by a disbursement command with the signed
\* value s stores amount = |s|, usdt = s, rate = 0 and fx = 0.
C2_DisbursementStored ==
    \A t \in transactions :
        (last.cmd = "send" /\ last.txn_id = t.id)
        => /\ t.amount = Abs(last.arg)
           /\ t.usdt = last.arg
           /\ t.rate = 0
           /\ t.fx = 0

C4_DepositTruncated ==
    conv.kind = "deposit"
    => conv.usdt = ExactDeposit(conv.amt, conv.pct, conv.fx)

\* C5: the usdt of a withdrawal is raw * (1 + rate) / fx rounded to two
\* decimals, an exact half cent upwards.
C5_WithdrawalHalfUp ==
    conv.kind = "withdrawal"
    => conv.usdt = ExactWithdrawal(conv.amt, conv.pct, conv.fx)

\* C6: a summary shows as should_send the sum of the usdt of the chat's
\* deposits of the period and as sent the sum of the usdt of its
\* withdrawals and disbursements (both sums are exact two-decimal values,
\* which truncation and rounding leave alone); a retraction lowers sent.
C6_SummaryTotals ==
    last.summary
    => /\ Shown.should = Stored.should
       /\ Shown.sent = Stored.sent
       /\ (last.cmd = "send" /\ last.txn_id # 0 /\ last.arg < 0)
          => Stored.sent = last.before.sent + last.arg

\* C7: the outstanding figure of a summary is should_send - sent of the
\* chat's stored transactions of the period, also when it is negative.
C7_Outstanding ==
    last.summary => Shown.diff = Stored.should - Stored.sent

\* C8: undoing a transaction by the reference of its bill, directly after
\* it was recorded, returns the stored totals of the chat (and with them
\* the three figures of the summary) to their values before the recording.
C8_RecordUndo ==
    [][(/\ last.cmd \in RecordCmds /\ last.txn_id # 0
        /\ last'.cmd = "undo" /\ last'.chat = last.chat
        /\ last'.arg = last.msg /\ is_bot_admin(last'.user))
       => Totals(transactions', last.chat, today') = last.before]_vars

\* C9: an undo that repeats the reference of an undo that has just removed
\* a transaction answers not-found and leaves the table as it is.
C9_SecondUndo ==
    [][(/\ last.cmd \in {"undo", "rollback"} /\ last.deleted # NoTxn
        /\ last'.cmd = last.cmd /\ last'.chat = last.chat
        /\ last'.arg = last.arg
        /\ IF last.cmd = "undo" THEN is_bot_admin(last'.user)
           ELSE last'.user = OWNER_ID)
       => /\ last'.reply \in {"not_found", "404"}
          /\ last'.deleted = NoTxn
          /\ transactions' = transactions]_vars

\* C10: an undo (in a chat or through the API) with reference ref removes
\* at most one row; a removed row carries ref and is the row handed back;
\* when an authorised undo finds rows carrying ref exactly one is removed;
\* when no row carries ref the table stays as it is.
C10_UndoOne ==
    [][last'.cmd \in {"undo", "rollback"}
       => LET ref     == last'.arg
              removed == transactions \ transactions'
              allowed == IF last'.cmd = "undo" THEN is_bot_admin(last'.user)
                         ELSE last'.user = OWNER_ID
          IN  /\ transactions' \subseteq transactions
              /\ Cardinality(removed) <= 1
              /\ \A t \in removed : t.message_id = ref /\ last'.deleted = t
              /\ removed = {} => last'.deleted = NoTxn
              /\ (allowed /\ RowsWithMessageId(transactions, ref) # {})
                 => Cardinality(removed) = 1
              /\ RowsWithMessageId(transactions, ref) = {}
                 => transactions' = transactions]_vars

\* an undo has removed the row of its reference while a row of another
\* chat carries the same reference and stays
C10_Witness ==
    /\ last.cmd = "undo"
    /\ last.deleted # NoTxn
    /\ last.deleted.message_id = last.arg
    /\ last.deleted \notin transactions
    /\ \E t \in transactions : t.message_id = last.arg

\* C11: a clear-data command of a bot admin in chat c removes every row of
\* c created in the current period (on or after its start), and leaves
\* every row of c created before the period and every row of another chat.
C11_ResetScope ==
    [][(last'.cmd = "clear" /\ is_bot_admin(last'.user))
       => LET c == last'.chat
          IN  /\ transactions' \subseteq transactions
              /\ \A t \in transactions :
                    t \in transactions'
                    <=> (t.chat_id # c \/ t.day < today)]_vars

\* a clear-data command has removed rows of its chat and a row of that
\* chat created before the period is still stored
C11_Witness ==
    /\ last.cmd = "clear"
    /\ last.reply = "cleared"
    /\ \E t \in transactions : t.chat_id = last.chat /\ t.day < today

\* C12: the statistics of a clear-data command give, per type, the number
\* of the rows removed and the sum of their usdt; when no row matches they
\* are all zero, the command answers that there is nothing to clear and the
\* table stays as it is.
C12_ResetStats ==
    [][(last'.cmd = "clear" /\ is_bot_admin(last'.user))
       => LET removed == transactions \ transactions'
              st      == last'.stats
          IN  /\ st.in_count = Cardinality(RowsOfType(removed, "in"))
              /\ st.out_count = Cardinality(RowsOfType(removed, "out"))
              /\ st.send_count = Cardinality(RowsOfType(removed, "send"))
              /\ st.in_usdt = SumUsdt(RowsOfType(removed, "in"))
              /\ st.out_usdt = SumUsdt(RowsOfType(removed, "out"))
              /\ st.send_usdt = SumUsdt(RowsOfType(removed, "send"))
              /\ removed = {}
                 => /\ st = NoStats
                    /\ last'.reply = "nothing_to_clear"
                    /\ transactions' = transactions]_vars

\* a clear-data command has removed a disbursement and another row and has
\* reported them
C12_Witness ==
    /\ last.cmd = "clear"
    /\ last.stats.send_count >= 1
    /\ last.stats.in_count + last.stats.out_count + last.stats.send_count = 2

\* the record commands whose handlers have added their row
Accepted ==
    {p \in Tasks : tasks[p].reply = "summary"}

\* the orders in which the accepted commands can be replayed
ReplayOrders ==
    {o \in [1..Cardinality(Accepted) -> Accepted] :
        \A i, j \in DOMAIN o : i # j => o[i] # o[j]}

\* the table after the commands order[1], .., order[n] have been handled
\* one after the other, starting from an empty table
RECURSIVE ReplayRows(_, _)
ReplayRows(order, n) ==
    IF n = 0 THEN {}
    ELSE LET t == tasks[order[n]]
         IN  ReplayRows(order, n - 1)
             \cup {[id |-> n, chat_id |-> t.chat,
                     transaction_type |-> o.type, amount |-> o.amount,
                     rate |-> o.rate, fx |-> o.fx, usdt |-> o.usdt,
                     day |-> today, operator_id |-> t.user,
                     message_id |-> 0] :
                    o \in {Outcome(t.cmd, t.chat, t.user, t.text)}}

\* C13: the record commands in flight at once each come from an update of
\* their own and each add one row with an id of its own; as long as no
\* clear-data command runs, the table holds exactly these rows and the
\* stored totals of every chat are those of a replay of the commands one
\* after the other.
C13_ConcurrentRecords ==
    /\ \A p, q \in Tasks :
          (p # q /\ tasks[p].pc # "free" /\ tasks[q].pc # "free")
          => tasks[p].update_id # tasks[q].update_id
    /\ \A p \in Accepted : tasks[p].txn_id # 0
    /\ \A p, q \in Accepted : p # q => tasks[p].txn_id # tasks[q].txn_id
    /\ (\A p \in Tasks : tasks[p].cmd # "clear")
       => /\ Cardinality(transactions) = Cardinality(Accepted)
          /\ \A p \in Accepted :
                \E t \in transactions :
                    /\ t.id = tasks[p].txn_id
                    /\ t.chat_id = tasks[p].chat
                    /\ t.operator_id = tasks[p].user
          /\ \E order \in ReplayOrders :
                \A c \in Chats :
                    Totals(transactions, c, today)
                    = Totals(ReplayRows(order, Cardinality(Accepted)), c,
                             today)

\* two record commands of one chat have added their rows and both wait
\* for Telegram
C13_Witness ==
    \E p, q \in Accepted :
        /\ p # q
        /\ tasks[p].chat = tasks[q].chat
        /\ tasks[p].pc = "sending"
        /\ tasks[q].pc = "sending"

\* C14: a clear-data command that runs while a record command of the chat
\* is in flight either takes the new row (removes and counts it) or leaves
\* it: every row it removes is counted, and a record handler that goes on
\* to attach the id of its bill finds its row stored and leaves it with
\* that reference.
C14_ResetRace ==
    [][\A p \in Tasks :
          /\ (tasks[p].pc = "scheduled" /\ tasks'[p].pc = "replying")
             => Cardinality(transactions \ transactions')
                = tasks'[p].stats.in_count + tasks'[p].stats.out_count
                  + tasks'[p].stats.send_count
          /\ (tasks[p].pc = "delivered" /\ tasks'[p].pc = "done")
             => /\ \E t \in transactions : t.id = tasks[p].txn_id
                /\ \E t \in transactions' :
                      /\ t.id = tasks[p].txn_id
                      /\ t.message_id = tasks[p].msg]_vars

\* C15: a stored row keeps its chat, type, amount, rate, fx and usdt (and
\* its day and operator) in every step, also when a setting of its chat is
\* changed; a row changes only by getting the message id it did not have,
\* and rows disappear only by an undo or a clear-data command.
C15_RowsImmutable ==
    [][/\ \A t \in transactions : \A n \in transactions' :
             n.id = t.id
             => /\ [n EXCEPT !.message_id = 0] = [t EXCEPT !.message_id = 0]
                /\ n.message_id # t.message_id => t.message_id = 0
       /\ (\E t \in transactions : \A n \in transactions' : n.id # t.id)
          => last'.cmd \in {"undo", "rollback", "clear"}]_vars

\* a deposit recorded at one rate is stored while the rate setting of its
\* chat has just been changed to another value
C15_Witness ==
    /\ last.cmd = "in_rate"
    /\ last.reply = "done"
    /\ \E t \in transactions :
          /\ t.chat_id = last.chat
          /\ t.transaction_type = "in"
          /\ t.rate # group_config[last.chat].in_rate

\* C17: a setting command of a bot admin with a number writes that number
\* to its field of its chat and leaves the other three fields, the settings
\* of the other chats, the rows and the admins as they are; with a text
\* that is no number it answers with the format error and changes nothing.
C17_SetOneField ==
    [][last'.cmd \in ConfigFields
       => /\ last'.reply = "done"
             => group_config' = [group_config EXCEPT
                                   ![last'.chat][last'.cmd] = last'.arg]
          /\ last'.reply # "done" => group_config' = group_config
          /\ UNCHANGED <<transactions, next_id, admins, next_msg>>]_vars

\* the withdrawal fx of a chat has just been set while the chat has other
\* settings, the other chat has settings of its own and a deposit is stored
C17_Witness ==
    /\ last.cmd = "out_fx"
    /\ last.reply = "done"
    /\ group_config[last.chat].out_fx = 153
    /\ group_config[last.chat].in_fx = 0
    /\ group_config[last.chat].in_rate = 10
    /\ \E c \in Chats : c # last.chat /\ group_config[c].in_fx = 153
    /\ transactions # {}

C18_UnconfiguredChat ==
    /\ \A c \in Chats : group_config[c] = ZeroConfig
    /\ [][\A c \in Chats :
            /\ group_config'[c] # group_config[c]
               => /\ last'.chat = c
                  /\ last'.cmd \in ConfigFields \cup {"defaults"}
                  /\ last'.reply = "done"
                  /\ is_bot_admin(last'.user)
            /\ group_config[c].in_fx = 0
               => /\ \A t \in transactions' \ transactions :
                        ~(t.chat_id = c /\ t.transaction_type = "in")
                  /\ (/\ last'.cmd = "deposit" /\ last'.chat = c
                      /\ is_bot_admin(last'.user) /\ RecordBranch(last'.arg))
                     => last'.reply = "config_error"
            /\ group_config[c].out_fx = 0
               => /\ \A t \in transactions' \ transactions :
                        ~(t.chat_id = c /\ t.transaction_type = "out")
                  /\ (/\ last'.cmd = "withdrawal" /\ last'.chat = c
                      /\ is_bot_admin(last'.user) /\ RecordBranch(last'.arg))
                     => last'.reply = "config_error"]_vars

\* a withdrawal has been refused in a chat that has its deposit fx and a
\* deposit, but no withdrawal fx yet
C18_Witness ==
    /\ last.cmd = "withdrawal"
    /\ last.reply = "config_error"
    /\ group_config[last.chat].in_fx = 153
    /\ group_config[last.chat].out_fx = 0
    /\ \E t \in transactions :
          t.chat_id = last.chat /\ t.transaction_type = "in"

\* C19: every stored row has an amount above 0.
C19_PositiveAmount ==
    \A t \in transactions : t.amount > 0

\* C20: a deposit (withdrawal) command of a bot admin with an amount above
\* 0 either is answered with the configuration error, when the fx of its
\* direction is 0, and changes nothing, or adds exactly one deposit
\* (withdrawal) of that chat with that amount; it is never left unanswered.
C20_RecordOrConfigError ==
    [][(/\ last'.cmd \in {"deposit", "withdrawal"}
        /\ is_bot_admin(last'.user)
        /\ last'.arg > 0)
       => LET c    == last'.chat
              fx   == IF last'.cmd = "deposit" THEN group_config[c].in_fx
                      ELSE group_config[c].out_fx
              type == IF last'.cmd = "deposit" THEN "in" ELSE "out"
          IN  IF fx = 0
              THEN /\ last'.reply = "config_error"
                   /\ UNCHANGED <<transactions, next_id, group_config>>
              ELSE /\ last'.reply = "summary"
                   /\ transactions \subseteq transactions'
                   /\ Cardinality(transactions' \ transactions) = 1
                   /\ \A t \in transactions' \ transactions :
                         /\ t.chat_id = c
                         /\ t.transaction_type = type
                         /\ t.amount = last'.arg
                         /\ t.id = last'.txn_id]_vars

\* C21: the text "+0" shows the bill of the chat and changes nothing that
\* is stored, whoever sends it, in both programs.
C21_PlusZeroIsView ==
    [][(\/ last'.cmd = "deposit" /\ last'.arg = 0
        \/ variant = "app" /\ last'.cmd = "view")
       => /\ last'.reply = "summary"
          /\ last'.summary
          /\ UNCHANGED <<transactions, next_id, group_config, admins>>]_vars

\* C22: the statistics of a chat hold one entry for every operator_id that
\* has recorded in the period, and the entry of an operator holds, per
\* kind, the number and the usdt sum of the rows of that operator alone.
C22_ByOperator ==
    \A c \in Chats :
        LET rows  == PeriodRows(transactions, c, today)
            stats == by_operator(rows)
            ops   == {t.operator_id : t \in rows}
        IN  /\ Cardinality(DOMAIN stats) = Cardinality(ops)
            /\ \A u \in ops :
                  LET own   == {t \in rows : t.operator_id = u}
                      entry == stats[first_name[u]]
                  IN  /\ entry.deposit_count
                            = Cardinality(RowsOfType(own, "in"))
                      /\ entry.deposit_usdt = SumUsdt(RowsOfType(own, "in"))
                      /\ entry.withdrawal_count
                            = Cardinality(RowsOfType(own, "out"))
                      /\ entry.withdrawal_usdt
                            = SumUsdt(RowsOfType(own, "out"))
                      /\ entry.disbursement_count
                            = Cardinality(RowsOfType(own, "send"))
                      /\ entry.disbursement_usdt
                            = SumUsdt(RowsOfType(own, "send"))

\* C23: a message of a group chat from a user who is no bot admin when it
\* is handled leaves the transactions, the settings and the admin table as
\* they are; the user gets no answer except to the view commands.
C23_NonAdminNoMutation ==
    [][(/\ last'.cmd \notin {"none", "rollback", "attach"}
        /\ ~is_bot_admin(last'.user))
       => /\ UNCHANGED <<transactions, next_id, group_config, admins>>
          /\ \/ last'.reply = "ignored" /\ ~last'.summary
             \/ last'.cmd \in {"view", "more"}]_vars

\* a user who has recorded as a bot admin and has been removed from the
\* admin table sends the clear-data command; the row is still stored
C23_Witness ==
    /\ last.cmd = "clear"
    /\ ~is_bot_admin(last.user)
    /\ last.reply = "ignored"
    /\ \E t \in PeriodRows(transactions, last.chat, today) :
          t.operator_id = last.user

\* C24: POST /api/rollback answers 403 to everybody but the owner, 400 to
\* the owner without a message id, 404 to the owner when no row carries the
\* message id, and deletes nothing in the three cases; otherwise it answers
\* 200 and exactly one row, one that carries the message id, is deleted.
C24_Rollback ==
    [][last'.cmd = "rollback"
       => LET found   == RowsWithMessageId(transactions, last'.arg)
              removed == transactions \ transactions'
          IN  /\ UNCHANGED <<next_id, group_config, admins>>
              /\ transactions' \subseteq transactions
              /\ IF last'.user # OWNER_ID
                 THEN last'.reply = "403" /\ removed = {}
                 ELSE IF last'.arg = 0
                 THEN last'.reply = "400" /\ removed = {}
                 ELSE IF found = {}
                 THEN last'.reply = "404" /\ removed = {}
                 ELSE /\ last'.reply = "200"
                      /\ Cardinality(removed) = 1
                      /\ removed \subseteq found
                      /\ removed = {last'.deleted}]_vars

\* the owner has rolled back a message id that two rows carried, and one
\* of the two is still stored
C24_Witness ==
    /\ last.cmd = "rollback"
    /\ last.reply = "200"
    /\ last.deleted.message_id = last.arg
    /\ \E t \in transactions : t.message_id = last.arg

\* C25: an undo sent in a chat removes no row of another chat, and the row
\* it reports as undone belongs to the chat whose summary follows.
C25_UndoInChat ==
    [][(last'.cmd = "undo" /\ last'.reply = "undone")
       => /\ \A t \in transactions \ transactions' : t.chat_id = last'.chat
          /\ last'.deleted.chat_id = last'.chat]_vars

\* C26: when the handler of an undo reply to a delivered bill answers that
\* it has found no transaction, the transaction that bill presents is not
\* stored.
C26_UndoAfterDelivery ==
    [][\A p \in Tasks :
          (/\ tasks[p].pc = "scheduled"
           /\ tasks'[p].cmd = "undo"
           /\ tasks'[p].reply = "not_found")
          => ~\E q \in Tasks :
                 /\ tasks[q].cmd = "send"
                 /\ tasks[q].chat = tasks[p].chat
                 /\ tasks[q].msg = tasks[p].text.v
                 /\ \E t \in transactions : t.id = tasks[q].txn_id]_vars

\* C27: a row created by a record command is, sooner or later, deleted or
\* carries the message id of the bill sent for its command.
C27_EventuallyReferenced ==
    \A id \in 1..MaxTxn :
        (\E t \in transactions : t.id = id)
        ~> (\A t \in transactions :
               t.id = id
               => \E p \in Tasks : /\ tasks[p].txn_id = id
                                   /\ tasks[p].msg # 0
                                   /\ t.message_id = tasks[p].msg)

\* C28: the handler of one group message makes at most one change to the
\* stored data, the one of the command it has taken the text for: one row
\* added (with the id of its bill attached, and no other row touched), or
\* one row removed by an undo, or the rows removed by one clear-data, or
\* the settings of the one chat written, or one user added to or removed
\* from the admin table.
C28_OneMutation ==
    [][LET before  == {t.id : t \in transactions}
           after   == {t.id : t \in transactions'}
           added   == after \ before
           removed == before \ after
           cfg     == {c \in Chats : group_config'[c] # group_config[c]}
           adm     == (admins' \ admins) \cup (admins \ admins')
           changes == {k \in {"add", "remove", "config", "admin"} :
                         \/ k = "add" /\ added # {}
                         \/ k = "remove" /\ removed # {}
                         \/ k = "config" /\ cfg # {}
                         \/ k = "admin" /\ adm # {}}
       IN  /\ Cardinality(changes) <= 1
           /\ \A t \in transactions : t.id \in after => t \in transactions'
           /\ Cardinality(added) <= 1
           /\ next_id' = next_id + Cardinality(added)
           /\ added # {}
              => /\ last'.cmd \in RecordCmds
                 /\ \A t \in transactions' :
                       t.id \in added => /\ t.id = last'.txn_id
                                         /\ t.message_id = last'.msg
           /\ removed # {}
              => \/ last'.cmd = "undo" /\ Cardinality(removed) = 1
                 \/ last'.cmd = "clear"
           /\ cfg # {}
              => /\ cfg = {last'.chat}
                 /\ last'.cmd \in ConfigFields \cup {"defaults"}
           /\ adm # {}
              => /\ Cardinality(adm) = 1
                 /\ last'.cmd \in {"add_admin", "remove_admin"}]_vars

\* an undo has removed one of two stored rows
C28_Witness ==
    /\ last.cmd = "undo"
    /\ last.reply = "undone"
    /\ Cardinality(transactions) = 1
    /\ next_id = 3

\* C29: while telegram_app or bot_loop is None a request to the webhook is
\* answered with an error and nothing is scheduled, and no process_update
\* starts before initialize() has returned.
C29_NoUpdateBeforeInitialize ==
    [][/\ (boot.telegram_app = "None" \/ boot.bot_loop = "None")
          => /\ tasks' = tasks
             /\ boot'.answer \in {"none", "500"}
       /\ \A p \in Tasks : tasks'[p].reply # "before_initialize"]_vars

\* C30: the owner is a bot admin in every state, and no command of the
\* owner that is reserved to bot admins goes unanswered, whatever has been
\* added to or removed from the admin table.
C30_OwnerIsAdmin ==
    /\ [](is_bot_admin(OWNER_ID))
    /\ [][(/\ last'.user = OWNER_ID
            /\ last'.cmd \in {"add_admin", "remove_admin", "send", "undo",
                              "clear"})
           => last'.reply # "ignored"]_vars

\* the owner has been removed from the admin table and has recorded a
\* disbursement afterwards
C30_Witness ==
    /\ OWNER_ID \notin admins
    /\ last.user = OWNER_ID
    /\ last.cmd = "send"
    /\ last.reply = "summary"

\* C31: a message received in a private chat, whatever its text and whoever
\* sends it, leaves the transactions, the settings of the chats and the
\* admin table as they are.
C31_PrivateChatFrame ==
    [][last'.chat_type = "private"
       => UNCHANGED <<transactions, next_id, group_config, admins>>]_vars

\* the owner has sent the clear-data text in a private chat while rows of
\* the period are stored and a chat has settings
C31_Witness ==
    /\ last.chat_type = "private"
    /\ last.cmd = "clear"
    /\ last.user = OWNER_ID
    /\ \E c \in Chats : PeriodRows(transactions, c, today) # {}
    /\ \E c \in Chats : group_config[c] # ZeroConfig

\* C32: for the rows of a chat's current period the pending_disbursement
\* of the statistics API, taken to two decimals, is the outstanding figure
\* of the summary of the chat.
C32_ApiAgreesWithSummary ==
    \A c \in Chats :
        round2(pending_disbursement(PeriodRows(transactions, c, today)))
            = render_group_summary(transactions, c, today).diff

\* C33: the body of a route ran for chat c and user u only if the query or
\* the session of the request carried a token of four fields signed under
\* SESSION_SECRET for c, u and an expiry not yet passed at that request; a
\* request that carried no such token was answered 403 and its route did
\* not run; without SESSION_SECRET no route ever ran.
C33_TokenGuardsRoutes ==
    LET sent == {response.query, response.cookie}
        Carries(token, c, u, t) ==
            /\ SESSION_SECRET # "None"
            /\ Len(token) = 4
            /\ int(token[1]) = [ok |-> TRUE, v |-> c]
            /\ int(token[2]) = [ok |-> TRUE, v |-> u]
            /\ \E e \in WebInts :
                  /\ int(token[3]) = [ok |-> TRUE, v |-> e]
                  /\ token[4] = hexdigest(SESSION_SECRET, data(c, u, e))
                  /\ t <= e
    IN  /\ response.ran
           => \E token \in sent :
                 Carries(token, response.chat, response.user, response.at)
        /\ (/\ response.status # "none"
            /\ \A token \in sent, c \in WebInts, u \in WebInts :
                  ~Carries(token, c, u, response.at))
           => response.status = "403" /\ ~response.ran
        /\ SESSION_SECRET = "None" => ~response.ran

\* the owner's session, stored at an earlier second, is checked again at the
\* second its token expires and the rollback deletes a row
C33_Witness ==
    /\ response.ran
    /\ response.query = NoToken
    /\ response.cookie # NoToken
    /\ response.at = Lifetime
    /\ response.route = "api_rollback"
    /\ response.status = "200"

====
